---- MODULE Spec2Model ----
(***************************************************************************)
(* Kinesis Data Firehose destination binding (aws-kinesisfirehose):        *)
(* DestinationBase helpers, the concrete destinations' bind, and the       *)
(* DeliveryStream constructor, modelled as operations on one construct     *)
(* tree (a Stack).                                                         *)
(***************************************************************************)
EXTENDS Integers, Sequences, FiniteSets, TLC

VARIABLES
    binders,     \* the destination instances: kind, props, this.logGroup
    constructs,  \* the construct tree of the Stack
    grants,      \* the permissions granted so far
    logCalls,    \* the calls made by CreateLoggingOptions, in order
    last,        \* the last operation: its inputs, result, and what it created
    nCalls,      \* number of state-changing calls made
    streams      \* the delivery-stream resources emitted (CfnDeliveryStream)

vars == <<binders, constructs, grants, logCalls, last, nCalls, streams>>

(***************************************************************************)
(* Optional values (TypeScript `x?: T`): <<>> is undefined, <<v>> is v.    *)
(***************************************************************************)
None == <<>>

Some(v) == <<v>>

IsSome(o) == o # <<>>

Val(o) == o[1]

NullishOr(o, d) == IF IsSome(o) THEN o ELSE d

(***************************************************************************)
(* Bounds of the model.                                                    *)
(***************************************************************************)
MaxCalls == 3

(***************************************************************************)
(* Duration and Size of @aws-cdk/core: an amount with a unit.              *)
(***************************************************************************)
Duration(amount, unit) == [amount |-> amount, unit |-> unit]

Size(amount, unit) == [amount |-> amount, unit |-> unit]

toSeconds(d) ==
    CASE d.unit = "seconds" -> d.amount
      [] d.unit = "minutes" -> d.amount * 60
      [] d.unit = "hours"   -> d.amount * 3600

toMebibytes(s) ==
    CASE s.unit = "mebibytes" -> s.amount
      [] s.unit = "gibibytes" -> s.amount * 1024
      [] s.unit = "kibibytes" -> s.amount \div 1024

Durations ==
    { Duration(a, "seconds") : a \in {0, 30, 59, 60, 61, 899, 900, 901} }
      \cup { Duration(a, "minutes") : a \in {1, 15, 16} }

Sizes ==
    { Size(a, "mebibytes") : a \in {0, 1, 2, 127, 128, 129, 256} }
      \cup { Size(1024, "kibibytes"), Size(1, "gibibytes") }

(***************************************************************************)
(* Results of a helper call: a value, undefined, or a thrown Error.        *)
(***************************************************************************)
NoValue == [tag |-> "none"]

Returned(v) == [outcome |-> "value", error |-> "", value |-> v]

Undefined == [outcome |-> "undefined", error |-> "", value |-> NoValue]

Thrown(msg) == [outcome |-> "error", error |-> msg, value |-> NoValue]

ErrBufferingInterval == "Buffering interval must be between 1 and 15 minutes"

ErrBufferingSize == "Buffering size must be between 1 and 128 MBs"

ErrLoggingContradiction == "Destination logging cannot be set to false when logGroup is provided"

ErrBackupContradiction == "Destination backup cannot be set to DISABLED when backupBucket is provided"

ErrManyProcessors == "Only one processor is allowed per delivery stream destination"

ErrNameConflict == "There is already a Construct with name"

(***************************************************************************)
(* enum BackupMode { ALL, FAILED, DISABLED }: a numeric TypeScript enum.   *)
(***************************************************************************)
BackupModeALL == 0

BackupModeFAILED == 1

BackupModeDISABLED == 2

BackupModes == {BackupModeALL, BackupModeFAILED, BackupModeDISABLED}

(***************************************************************************)
(* The construct tree.  A construct is known by its path (the ids from the *)
(* Stack down); `by` is the binder whose call created it, 0 for the ones   *)
(* no binder created.        A second construct with the same id in the    *)
(* same scope is refused.                                                  *)
(***************************************************************************)
StackScope == <<"Stack">>

Construct(path, type, by) == [path |-> path, type |-> type, by |-> by]

HasConstruct(cons, path) == \E c \in cons : c.path = path

Grant(grantee, resource, access) == [grantee |-> grantee, resource |-> resource, access |-> access]

World(memo, cons, gr) == [memo |-> memo, constructs |-> cons, grants |-> gr]

Effect(w, r) == [w |-> w, r |-> r]

UserLogGroup == <<"Stack", "Log Group">>

UserBucket == <<"Stack", "Bucket">>

DeliveryStreamRole == "arn:aws:iam::111122223333:role/DeliveryStreamRole"

LambdaFunction == <<"Stack", "Processor">>

LambdaArn == "arn:aws:lambda:xx-west-1:111122223333:function:my-function"

functionArn(fn) == LambdaArn

HintsValue(bufferingInterval, bufferingSize) ==
    [ tag |-> "bufferingHints",
      intervalInSeconds |-> IF IsSome(bufferingInterval) THEN Some(toSeconds(Val(bufferingInterval))) ELSE None,
      sizeInMBs |-> IF IsSome(bufferingSize) THEN Some(toMebibytes(Val(bufferingSize))) ELSE None ]

(* mutant: the interval bounds taken exclusive (<= 60, >= 900) *)
createBufferingHints_ExclusiveInterval(bufferingInterval, bufferingSize) ==
    IF ~IsSome(bufferingInterval) /\ ~IsSome(bufferingSize)
      THEN Undefined
    ELSE IF IsSome(bufferingInterval)
            /\ (toSeconds(Val(bufferingInterval)) <= 60 \/ toSeconds(Val(bufferingInterval)) >= 900)
      THEN Thrown(ErrBufferingInterval)
    ELSE IF IsSome(bufferingSize)
            /\ (toMebibytes(Val(bufferingSize)) < 1 \/ toMebibytes(Val(bufferingSize)) > 128)
      THEN Thrown(ErrBufferingSize)
    ELSE Returned(HintsValue(bufferingInterval, bufferingSize))

(* mutant: the size tested for truthiness as a number, so 0 MiB counts as absent *)
createBufferingHints_FalsySize(bufferingInterval, bufferingSize) ==
    LET size == IF IsSome(bufferingSize) /\ toMebibytes(Val(bufferingSize)) = 0 THEN None ELSE bufferingSize
    IN IF ~IsSome(bufferingInterval) /\ ~IsSome(size)
         THEN Undefined
       ELSE IF IsSome(bufferingInterval)
               /\ (toSeconds(Val(bufferingInterval)) < 60 \/ toSeconds(Val(bufferingInterval)) > 900)
         THEN Thrown(ErrBufferingInterval)
       ELSE IF IsSome(size)
               /\ (toMebibytes(Val(size)) < 1 \/ toMebibytes(Val(size)) > 128)
         THEN Thrown(ErrBufferingSize)
       ELSE Returned(HintsValue(bufferingInterval, size))

(* mutant: the field not supplied is filled with the documented default *)
createBufferingHints_Defaulting(bufferingInterval, bufferingSize) ==
    IF ~IsSome(bufferingInterval) /\ ~IsSome(bufferingSize)
      THEN Undefined
    ELSE IF IsSome(bufferingInterval)
            /\ (toSeconds(Val(bufferingInterval)) < 60 \/ toSeconds(Val(bufferingInterval)) > 900)
      THEN Thrown(ErrBufferingInterval)
    ELSE IF IsSome(bufferingSize)
            /\ (toMebibytes(Val(bufferingSize)) < 1 \/ toMebibytes(Val(bufferingSize)) > 128)
      THEN Thrown(ErrBufferingSize)
    ELSE Returned(HintsValue(NullishOr(bufferingInterval, Some(Duration(60, "seconds"))),
                             NullishOr(bufferingSize, Some(Size(3, "mebibytes")))))

(***************************************************************************)
(* DestinationBase.createBufferingHints                                    *)
(***************************************************************************)
createBufferingHints(bufferingInterval, bufferingSize) ==
    IF ~IsSome(bufferingInterval) /\ ~IsSome(bufferingSize)
      THEN Undefined
    ELSE IF IsSome(bufferingInterval)
            /\ (toSeconds(Val(bufferingInterval)) < 60 \/ toSeconds(Val(bufferingInterval)) > 900)
      THEN Thrown(ErrBufferingInterval)
    ELSE IF IsSome(bufferingSize)
            /\ (toMebibytes(Val(bufferingSize)) < 1 \/ toMebibytes(Val(bufferingSize)) > 128)
      THEN Thrown(ErrBufferingSize)
    ELSE Returned(HintsValue(bufferingInterval, bufferingSize))

(***************************************************************************)
(* DestinationBase.createLoggingOptions.  `w` carries this.logGroup (memo) *)
(* and the construct tree; an Error thrown part-way keeps what was done    *)
(* before it.                                                              *)
(***************************************************************************)

(* destination.ts lines 166-172: `existing` is this.logGroup ?? this.props.logGroup *)
ensureLogGroupAndStream(existing, me, w, scope, principal, streamId) ==
    LET newPath == scope \o <<"Log Group">>
    IN IF ~IsSome(existing) /\ HasConstruct(w.constructs, newPath)
         THEN Effect(w, Thrown(ErrNameConflict))
         ELSE LET lg == IF IsSome(existing) THEN Val(existing) ELSE newPath
                  c1 == IF IsSome(existing)
                          THEN w.constructs
                          ELSE w.constructs \cup {Construct(newPath, "AWS::Logs::LogGroup", me)}
                  g1 == w.grants \cup {Grant(principal, lg, "write")}
                  streamPath == lg \o <<streamId>>
              IN IF HasConstruct(c1, streamPath)
                   THEN Effect(World(Some(lg), c1, g1), Thrown(ErrNameConflict))
                   ELSE Effect(
                          World(Some(lg),
                                c1 \cup {Construct(streamPath, "AWS::Logs::LogStream", me)},
                                g1),
                          Returned([tag |-> "logging",
                                    enabled |-> TRUE,
                                    logGroupName |-> lg,
                                    logStreamName |-> streamPath]))

(* mutant: the contradiction check is missing *)
createLoggingOptions_NoContradictionCheck(props, me, w, scope, principal, streamId) ==
    IF props.logging # Some(FALSE) \/ IsSome(props.logGroup)
      THEN ensureLogGroupAndStream(NullishOr(w.memo, props.logGroup), me, w, scope, principal, streamId)
    ELSE Effect(w, Undefined)

(* mutant: this.logGroup is not consulted, every call resolves the group afresh *)
createLoggingOptions_NoMemo(props, me, w, scope, principal, streamId) ==
    IF props.logging = Some(FALSE) /\ IsSome(props.logGroup)
      THEN Effect(w, Thrown(ErrLoggingContradiction))
    ELSE IF props.logging # Some(FALSE) \/ IsSome(props.logGroup)
      THEN ensureLogGroupAndStream(props.logGroup, me, w, scope, principal, streamId)
    ELSE Effect(w, Undefined)

(* mutant: props.logGroup is not consulted, a group is created even when one is supplied *)
createLoggingOptions_IgnoresSupplied(props, me, w, scope, principal, streamId) ==
    IF props.logging = Some(FALSE) /\ IsSome(props.logGroup)
      THEN Effect(w, Thrown(ErrLoggingContradiction))
    ELSE IF props.logging # Some(FALSE) \/ IsSome(props.logGroup)
      THEN ensureLogGroupAndStream(w.memo, me, w, scope, principal, streamId)
    ELSE Effect(w, Undefined)

createLoggingOptions(props, me, w, scope, principal, streamId) ==
    IF props.logging = Some(FALSE) /\ IsSome(props.logGroup)
      THEN Effect(w, Thrown(ErrLoggingContradiction))
    ELSE IF props.logging # Some(FALSE) \/ IsSome(props.logGroup)
      THEN ensureLogGroupAndStream(NullishOr(w.memo, props.logGroup), me, w, scope, principal, streamId)
    ELSE Effect(w, Undefined)

(***************************************************************************)
(* LambdaFunctionProcessor.bind: grants invoke, returns the descriptor.    *)
(***************************************************************************)
processorBind(processor, w, principal) ==
    Effect(World(w.memo, w.constructs, w.grants \cup {Grant(principal, processor.lambda, "invoke")}),
           Returned([tag |-> "processorConfig",
                     processorType |-> "Lambda",
                     processorIdentifier |-> [parameterName |-> "LambdaArn", parameterValue |-> functionArn(processor.lambda)],
                     bufferInterval |-> processor.bufferInterval,
                     bufferSize |-> processor.bufferSize,
                     retries |-> processor.retries]))

Parameter(name, value) == [parameterName |-> name, parameterValue |-> value]

(* the parameter list of one bound processor (destination.ts, the map body) *)
processorParameters(processorConfig, principal) ==
    <<Parameter("RoleArn", principal), processorConfig.processorIdentifier>>
      \o (IF IsSome(processorConfig.bufferInterval)
            THEN <<Parameter("BufferIntervalInSeconds", ToString(toSeconds(Val(processorConfig.bufferInterval))))>>
            ELSE <<>>)
      \o (IF IsSome(processorConfig.bufferSize)
            THEN <<Parameter("BufferSizeInMBs", ToString(toMebibytes(Val(processorConfig.bufferSize))))>>
            ELSE <<>>)
      \o (IF IsSome(processorConfig.retries) /\ Val(processorConfig.retries) # 0
            THEN <<Parameter("NumberOfRetries", ToString(Val(processorConfig.retries)))>>
            ELSE <<>>)

(***************************************************************************)
(* DestinationBase.createProcessingConfig                                  *)
(***************************************************************************)
(* createProcessingConfig binding the first processor before it counts them *)
createProcessingConfig_BindsFirst(props, me, w, principal) ==
    IF IsSome(props.processors) /\ Len(Val(props.processors)) > 0
      THEN LET bound == processorBind(Val(props.processors)[1], w, principal)
           IN IF Len(Val(props.processors)) > 1
                THEN Effect(bound.w, Thrown(ErrManyProcessors))
                ELSE Effect(bound.w,
                            Returned([tag |-> "processing",
                                      enabled |-> TRUE,
                                      processors |-> << [type |-> bound.r.value.processorType,
                                                         parameters |-> processorParameters(bound.r.value, principal)] >>]))
      ELSE Effect(w, Undefined)

(* createProcessingConfig with the cardinality test off by one: a single    *)
(* processor is already refused                                             *)
createProcessingConfig_AtLeastOne(props, me, w, principal) ==
    IF IsSome(props.processors) /\ Len(Val(props.processors)) >= 1
      THEN Effect(w, Thrown(ErrManyProcessors))
      ELSE Effect(w, Undefined)

createProcessingConfig(props, me, w, principal) ==
    IF IsSome(props.processors) /\ Len(Val(props.processors)) > 1
      THEN Effect(w, Thrown(ErrManyProcessors))
    ELSE IF IsSome(props.processors) /\ Len(Val(props.processors)) > 0
      THEN LET bound == processorBind(Val(props.processors)[1], w, principal)
           IN Effect(bound.w,
                     Returned([tag |-> "processing",
                               enabled |-> TRUE,
                               processors |-> << [type |-> bound.r.value.processorType,
                                                  parameters |-> processorParameters(bound.r.value, principal)] >>]))
    ELSE Effect(w, Undefined)

(***************************************************************************)
(* DestinationBase.createBackupConfig                                      *)
(***************************************************************************)

(* destination.ts lines 214-219: the bucket resolved, the configuration built *)
resolveBackupBucket(props, me, w, scope, principal) ==
    LET newPath == scope \o <<"Backup Bucket">>
    IN IF ~IsSome(props.backupBucket) /\ HasConstruct(w.constructs, newPath)
         THEN Effect(w, Thrown(ErrNameConflict))
         ELSE LET bucket == IF IsSome(props.backupBucket) THEN Val(props.backupBucket) ELSE newPath
                  c1 == IF IsSome(props.backupBucket)
                          THEN w.constructs
                          ELSE w.constructs \cup {Construct(newPath, "AWS::S3::Bucket", me)}
              IN Effect(World(w.memo, c1, w.grants),
                        Returned([tag |-> "backup",
                                  bucketArn |-> bucket,
                                  roleArn |-> principal,
                                  prefix |-> props.backupPrefix]))

(* mutant: an absent backup mode taken as active *)
createBackupConfig_AbsentIsActive(props, me, w, scope, principal) ==
    IF props.backup = Some(BackupModeDISABLED) /\ IsSome(props.backupBucket)
      THEN Effect(w, Thrown(ErrBackupContradiction))
    ELSE IF props.backup # Some(BackupModeDISABLED) \/ IsSome(props.backupBucket)
      THEN resolveBackupBucket(props, me, w, scope, principal)
    ELSE Effect(w, Undefined)

(* mutant: only the backup mode decides, a supplied bucket does not *)
createBackupConfig_ModeOnly(props, me, w, scope, principal) ==
    IF props.backup = Some(BackupModeDISABLED) /\ IsSome(props.backupBucket)
      THEN Effect(w, Thrown(ErrBackupContradiction))
    ELSE IF IsSome(props.backup) /\ props.backup # Some(BackupModeDISABLED)
      THEN resolveBackupBucket(props, me, w, scope, principal)
    ELSE Effect(w, Undefined)

(* mutant: the contradiction check is missing *)
createBackupConfig_NoContradictionCheck(props, me, w, scope, principal) ==
    IF (IsSome(props.backup) /\ props.backup # Some(BackupModeDISABLED)) \/ IsSome(props.backupBucket)
      THEN resolveBackupBucket(props, me, w, scope, principal)
    ELSE Effect(w, Undefined)

createBackupConfig(props, me, w, scope, principal) ==
    IF props.backup = Some(BackupModeDISABLED) /\ IsSome(props.backupBucket)
      THEN Effect(w, Thrown(ErrBackupContradiction))
    ELSE IF (IsSome(props.backup) /\ props.backup # Some(BackupModeDISABLED)) \/ IsSome(props.backupBucket)
      THEN resolveBackupBucket(props, me, w, scope, principal)
    ELSE Effect(w, Undefined)

(***************************************************************************)
(* The destinations under test and their props (DestinationProps).         *)
(***************************************************************************)
Processor(bufferInterval, bufferSize, retries) ==
    [lambda |-> LambdaFunction, bufferInterval |-> bufferInterval, bufferSize |-> bufferSize, retries |-> retries]

DefaultProcessor == Processor(None, None, None)

Processors ==
    { DefaultProcessor,
      Processor(Some(Duration(1, "minutes")), Some(Size(1024, "kibibytes")), Some(1)),
      Processor(None, Some(Size(1, "mebibytes")), Some(0)) }

ProcessorLists ==
    {None, Some(<<>>), Some(<<DefaultProcessor, DefaultProcessor>>)}
      \cup { Some(<<p>>) : p \in Processors }

DestinationProps ==
    [ logging      : {None, Some(TRUE), Some(FALSE)},
      logGroup     : {None, Some(UserLogGroup)},
      processors   : ProcessorLists,
      backup       : {None} \cup { Some(m) : m \in BackupModes },
      backupBucket : {None, Some(UserBucket)},
      backupPrefix : {None, Some("backupPrefix")} ]

Binder(kind, props) == [kind |-> kind, props |-> props, logGroup |-> None]

Scopes == {StackScope, <<"Stack", "Delivery Stream">>}

StreamIds == {"streamId", "anotherStreamId", "thirdStreamId"}

UserConstructs(hasLogGroup, hasBucket) ==
    (IF hasLogGroup THEN {Construct(UserLogGroup, "AWS::Logs::LogGroup", 0)} ELSE {})
      \cup (IF hasBucket THEN {Construct(UserBucket, "AWS::S3::Bucket", 0)} ELSE {})

NoCall ==
    [ op |-> "none", binder |-> 0, scope |-> <<>>, streamId |-> "",
      interval |-> None, size |-> None, result |-> Undefined,
      created |-> {}, granted |-> {}, memoBefore |-> None, input |-> NoValue ]

Call(op, b, scope, streamId, interval, size, result, created, granted, memoBefore) ==
    [ op |-> op, binder |-> b, scope |-> scope, streamId |-> streamId,
      interval |-> interval, size |-> size, result |-> result,
      created |-> created, granted |-> granted, memoBefore |-> memoBefore,
      input |-> NoValue ]

WorldOf(b) == World(binders[b].logGroup, constructs, grants)

(* what a call's effect leaves in the state *)
Apply(op, b, scope, streamId, e) ==
    /\ binders' = [binders EXCEPT ![b].logGroup = e.w.memo]
    /\ constructs' = e.w.constructs
    /\ grants' = e.w.grants
    /\ last' = Call(op, b, scope, streamId, None, None, e.r,
                    e.w.constructs \ constructs, e.w.grants \ grants, binders[b].logGroup)
    /\ nCalls' = nCalls + 1
    /\ UNCHANGED streams

Init ==
    /\ \E p \in DestinationProps, userLogGroup \in BOOLEAN :
          /\ IsSome(p.logGroup) => userLogGroup
          /\ binders = <<Binder("base", p)>>
          /\ constructs = UserConstructs(userLogGroup, IsSome(p.backupBucket))
    /\ grants = {}
    /\ logCalls = <<>>
    /\ last = NoCall
    /\ nCalls = 0
    /\ streams = {}

(* a subclass's bind calling this.createLoggingOptions(scope, deliveryStream, streamId) *)
CreateLoggingOptions ==
    \E b \in DOMAIN binders, scope \in Scopes, streamId \in StreamIds :
        /\ nCalls < MaxCalls
        /\ LET e == createLoggingOptions(binders[b].props, b, WorldOf(b), scope, DeliveryStreamRole, streamId)
           IN /\ Apply("createLoggingOptions", b, scope, streamId, e)
              /\ logCalls' = Append(logCalls, [binder |-> b, streamId |-> streamId, result |-> e.r])

(* a subclass's bind calling this.createBackupConfig(scope, deliveryStream) *)
CreateBackupConfig ==
    \E b \in DOMAIN binders, scope \in Scopes :
        /\ nCalls < MaxCalls
        /\ Apply("createBackupConfig", b, scope, "",
                 createBackupConfig(binders[b].props, b, WorldOf(b), scope, DeliveryStreamRole))
        /\ UNCHANGED logCalls

(* a subclass's bind calling this.createProcessingConfig(deliveryStream) *)
CreateProcessingConfig ==
    \E b \in DOMAIN binders :
        /\ nCalls < MaxCalls
        /\ Apply("createProcessingConfig", b, <<>>, "",
                 createProcessingConfig(binders[b].props, b, WorldOf(b), DeliveryStreamRole))
        /\ UNCHANGED logCalls

(* a subclass's bind calling this.createBufferingHints(interval, size) on the *)
(* inputs drawn by InitHints                                                  *)
CreateBufferingHints ==
    /\ last.op = "props"
    /\ last' = [last EXCEPT !.op = "createBufferingHints",
                            !.result = createBufferingHints(last.interval, last.size)]
    /\ UNCHANGED <<binders, constructs, grants, logCalls, nCalls, streams>>

Next ==
    \/ CreateLoggingOptions
    \/ CreateBackupConfig
    \/ CreateProcessingConfig

Spec == Init /\ [][Next]_vars

(***************************************************************************)
(* createBufferingHints is a pure function of its two arguments: SpecHints *)
(* draws them and applies it.                                              *)
(***************************************************************************)
DefaultProps ==
    [ logging |-> None, logGroup |-> None, processors |-> None,
      backup |-> None, backupBucket |-> None, backupPrefix |-> None ]

InitHints ==
    /\ binders = <<Binder("base", DefaultProps)>>
    /\ constructs = {}
    /\ grants = {}
    /\ logCalls = <<>>
    /\ nCalls = 0
    /\ streams = {}
    /\ \E interval \in {None} \cup { Some(d) : d \in Durations },
          size \in {None} \cup { Some(z) : z \in Sizes } :
          last = [NoCall EXCEPT !.op = "props", !.binder = 1, !.interval = interval, !.size = size]

NextHints == CreateBufferingHints

SpecHints == InitHints /\ [][NextHints]_vars

(***************************************************************************)
(* The concrete destinations (aws-kinesisfirehose-destinations).  A bind   *)
(* returns DestinationConfig.properties as a function from property name   *)
(* to an optional value.                                                   *)
(***************************************************************************)
Failed(e) == e.r.outcome = "error"

ToOption(r) == IF r.outcome = "value" THEN Some(r.value) ELSE None

UserDomain == <<"Stack", "Domain">>

UserCluster == <<"Stack", "Cluster">>

UserMasterSecret == <<"Stack", "Cluster", "Secret">>

UserKey == <<"Stack", "Key">>

UserSourceStream == <<"Stack", "Source Stream">>

UserBucketAccessRole == <<"Stack", "Bucket Access Role">>

roleArn(rolePath) == ToString(rolePath)

(* new X(scope, id): refused when the id is taken in the scope *)
NewConstruct(w, path, type, by) ==
    IF HasConstruct(w.constructs, path)
      THEN Effect(w, Thrown(ErrNameConflict))
      ELSE Effect(World(w.memo, w.constructs \cup {Construct(path, type, by)}, w.grants),
                  Returned(path))

WithGrants(w, gs) == World(w.memo, w.constructs, w.grants \cup gs)

(* s3.ts createEncryptionConfig *)
createEncryptionConfig(encryptionKey) ==
    IF IsSome(encryptionKey)
      THEN [kmsEncryptionConfig |-> Some([awskmsKeyArn |-> Val(encryptionKey)]), noEncryptionConfig |-> None]
      ELSE [kmsEncryptionConfig |-> None, noEncryptionConfig |-> Some("NoEncryption")]

(* S3Destination.bind *)
S3Destination_bind(d, me, w, scope, principal) ==
    LET w1 == WithGrants(w, {Grant(principal, d.ext.bucket, "readWrite")})
        hints == createBufferingHints(d.ext.bufferingInterval, d.ext.bufferingSize)
    IN IF hints.outcome = "error"
         THEN Effect(w1, hints)
         ELSE Effect(w1, Returned(
                "s3DestinationConfiguration" :> Some(
                    [ bucketArn |-> d.ext.bucket,
                      roleArn |-> principal,
                      prefix |-> d.ext.prefix,
                      errorOutputPrefix |-> d.ext.errorOutputPrefix,
                      compressionFormat |-> d.ext.compressionFormat,
                      encryptionConfiguration |-> createEncryptionConfig(d.ext.encryptionKey),
                      bufferingHints |-> ToOption(hints) ])))

(* elasticsearch.ts lines 57-71, given the bucket of line 61 resolved *)
elasticsearchConfiguration(d, principal, bucket) ==
    IF Failed(bucket)
      THEN bucket
      ELSE Effect(bucket.w, Returned(
             "elasticsearchDestinationConfiguration" :> Some(
                 [ indexName |-> d.ext.indexName,
                   roleArn |-> principal,
                   s3Configuration |-> [bucketArn |-> bucket.r.value, roleArn |-> principal],
                   domainArn |-> d.ext.domain ])))

(* this.props.backupBucket ?? new s3.Bucket(scope, 'Backup Bucket') *)
elasticsearchBucket(d, me, w, scope) ==
    IF IsSome(d.props.backupBucket)
      THEN Effect(w, Returned(Val(d.props.backupBucket)))
      ELSE NewConstruct(w, scope \o <<"Backup Bucket">>, "AWS::S3::Bucket", me)

(* ElasticsearchDestination.bind *)
ElasticsearchDestination_bind(d, me, w, scope, principal) ==
    elasticsearchConfiguration(d, principal,
        elasticsearchBucket(d, me,
            WithGrants(w, { Grant(principal, d.ext.domain, "readWrite"),
                            Grant(principal, d.ext.domain, "describe") }),
            scope))

(* the tests' mockS3Destination: an IDestination that is not a DestinationBase *)
mockS3Destination_bind(d, me, w, scope, principal) ==
    Effect(w, Returned(
        "s3DestinationConfiguration" :> Some(
            [ bucketArn |-> "arn:aws:s3:::my-bucket",
              roleArn |-> "arn:aws:iam::111122223333:role/my-role" ])))

(***************************************************************************)
(* RedshiftDestination                                                     *)
(***************************************************************************)
ErrRedshiftBackupMode ==
    "Redshift delivery stream destination only supports ENABLED and DISABLED BackupMode, given FAILED"

ErrNotPubliclyAccessible == "Redshift cluster used as Firehose destination must be publicly accessible"

ErrNoPublicSubnet == "Redshift cluster used as Firehose destination must be located in a public subnet"

ErrNoMasterSecret == "Master secret must be provided or Redshift cluster must generate a master secret"

ErrRetryTimeout == "Retry timeout must be less that 2 hours"

ErrCompression == "Compression must not be SNAPPY or ZIP"

(* redshift.ICluster as the destination reads it; subnetGroup is absent when *)
(* subnetGroup or its selectedSubnets is                                     *)
Cluster(publiclyAccessible, subnetGroup, isCluster, secret) ==
    [ path |-> UserCluster, publiclyAccessible |-> publiclyAccessible,
      subnetGroup |-> subnetGroup, isCluster |-> isCluster, secret |-> secret ]

(* the constructor without the backup mode check *)
RedshiftDestination_new_AnyBackupMode(props, ext) ==
    LET cluster == ext.cluster
        masterSecret == NullishOr(ext.masterSecret, IF cluster.isCluster THEN cluster.secret ELSE None)
    IN IF ~cluster.publiclyAccessible
         THEN Thrown(ErrNotPubliclyAccessible)
       ELSE IF ~(IsSome(cluster.subnetGroup) /\ Val(cluster.subnetGroup).hasPublic)
         THEN Thrown(ErrNoPublicSubnet)
       ELSE IF ~IsSome(masterSecret)
         THEN Thrown(ErrNoMasterSecret)
       ELSE IF IsSome(ext.retryTimeout)
               /\ toSeconds(Val(ext.retryTimeout)) > toSeconds(Duration(2, "hours"))
         THEN Thrown(ErrRetryTimeout)
       ELSE IF ext.compression = Some("Snappy") \/ ext.compression = Some("ZIP")
         THEN Thrown(ErrCompression)
       ELSE Returned(Val(masterSecret))

(* the constructor: the master secret it keeps, or the Error it throws *)
RedshiftDestination_new(props, ext) ==
    LET cluster == ext.cluster
        masterSecret == NullishOr(ext.masterSecret, IF cluster.isCluster THEN cluster.secret ELSE None)
    IN IF props.backup = Some(BackupModeFAILED)
         THEN Thrown(ErrRedshiftBackupMode)
       ELSE IF ~cluster.publiclyAccessible
         THEN Thrown(ErrNotPubliclyAccessible)
       ELSE IF ~(IsSome(cluster.subnetGroup) /\ Val(cluster.subnetGroup).hasPublic)
         THEN Thrown(ErrNoPublicSubnet)
       ELSE IF ~IsSome(masterSecret)
         THEN Thrown(ErrNoMasterSecret)
       ELSE IF IsSome(ext.retryTimeout)
               /\ toSeconds(Val(ext.retryTimeout)) > toSeconds(Duration(2, "hours"))
         THEN Thrown(ErrRetryTimeout)
       ELSE IF ext.compression = Some("Snappy") \/ ext.compression = Some("ZIP")
         THEN Thrown(ErrCompression)
       ELSE Returned(Val(masterSecret))

createRetryOptions(retryTimeout) ==
    IF IsSome(retryTimeout)
      THEN Some([durationInSeconds |-> toSeconds(Val(retryTimeout))])
      ELSE None

(* destination.ts (redshift) lines 210-236: the user given, or one generated *)
redshiftUser(d, me, w, scope) ==
    IF IsSome(d.ext.user.password)
      THEN Effect(w, Returned([username |-> d.ext.user.username, password |-> Val(d.ext.user.password)]))
      ELSE LET secret == NewConstruct(w, scope \o <<"Firehose User Secret">>, "DatabaseSecret", me)
               user == IF Failed(secret)
                         THEN secret
                         ELSE NewConstruct(secret.w, scope \o <<"Firehose Redshift User">>, "FirehoseRedshiftUser", me)
           IN IF Failed(user)
                THEN user
                ELSE Effect(user.w, Returned([username |-> "FirehoseRedshiftUser.username",
                                              password |-> "secretValueFromJson(password)"]))

(* RedshiftDestination.createRedshiftConfig, statement by statement.  Each  *)
(* step takes what the earlier steps left (the world, the last result, the  *)
(* values computed) and a step that throws ends the call with what the      *)
(* earlier steps did.                                                       *)
RedshiftSteps(w) ==
    [ w |-> w, r |-> Undefined, table |-> <<>>, user |-> NoValue, bucket |-> <<>>,
      bufferingHints |-> None,
      s3Logging |-> None, accessRole |-> <<>>, logging |-> None, processing |-> None,
      backup |-> None ]

(* what a step leaves: the world and result of its call e, and a value kept *)
StepDone(acc, e, field, value) == [acc EXCEPT !.w = e.w, !.r = e.r, ![field] = value]

KeepValue(acc, e, field) == StepDone(acc, e, field, IF Failed(e) THEN acc[field] ELSE e.r.value)

KeepOption(acc, e, field) == StepDone(acc, e, field, ToOption(e.r))

(* lines 200-208 *)
tableStep(d, me, scope, principal, acc) ==
    KeepValue(acc,
              NewConstruct(WithGrants(acc.w, {Grant(principal, d.ext.cluster.path, "connect")}),
                           scope \o <<"Firehose Redshift Table">>, "FirehoseRedshiftTable", me),
              "table")

(* lines 210-236 *)
userStep(d, me, scope, principal, acc) ==
    KeepValue(acc, redshiftUser(d, me, acc.w, scope), "user")

(* line 239: intermediateBucket.grantReadWrite(deliveryStream) *)
GrantReadWrite(principal, e) ==
    IF Failed(e) THEN e ELSE Effect(WithGrants(e.w, {Grant(principal, e.r.value, "readWrite")}), e.r)

(* lines 238-239 *)
intermediateBucketStep(d, me, scope, principal, acc) ==
    KeepValue(acc,
              GrantReadWrite(principal,
                  IF IsSome(d.ext.intermediateBucket)
                    THEN Effect(acc.w, Returned(Val(d.ext.intermediateBucket)))
                    ELSE NewConstruct(acc.w, scope \o <<"Intermediate Bucket">>, "AWS::S3::Bucket", me)),
              "bucket")

(* line 243 *)
bufferingHintsStep(d, me, scope, principal, acc) ==
    KeepOption(acc, Effect(acc.w, createBufferingHints(d.ext.bufferingInterval, d.ext.bufferingSize)),
               "bufferingHints")

(* line 244 *)
s3LoggingStep(d, me, scope, principal, acc) ==
    KeepOption(acc, createLoggingOptions(d.props, me, acc.w, scope, principal, "IntermediateS3"),
               "s3Logging")

(* lines 251-254: cluster.attachRole and intermediateBucket.grantRead *)
AttachAndGrantRead(d, bucket, e) ==
    IF Failed(e) THEN e
    ELSE Effect(WithGrants(e.w,
                    (IF ~IsSome(d.ext.bucketAccessRole) /\ d.ext.cluster.isCluster
                       THEN {Grant(roleArn(e.r.value), d.ext.cluster.path, "attachRole")}
                       ELSE {})
                    \cup {Grant(roleArn(e.r.value), bucket, "read")}),
                e.r)

(* lines 248-254 *)
accessRoleStep(d, me, scope, principal, acc) ==
    KeepValue(acc,
              AttachAndGrantRead(d, acc.bucket,
                  IF IsSome(d.ext.bucketAccessRole)
                    THEN Effect(acc.w, Returned(Val(d.ext.bucketAccessRole)))
                    ELSE NewConstruct(acc.w, scope \o <<"Intermediate Bucket Access Role">>,
                                      "AWS::IAM::Role", me)),
              "accessRole")

(* line 267 *)
loggingStep(d, me, scope, principal, acc) ==
    KeepOption(acc, createLoggingOptions(d.props, me, acc.w, scope, principal, "Redshift"), "logging")

(* line 268 *)
processingStep(d, me, scope, principal, acc) ==
    KeepOption(acc, createProcessingConfig(d.props, me, acc.w, principal), "processing")

(* line 270 *)
backupStep(d, me, scope, principal, acc) ==
    KeepOption(acc, createBackupConfig(d.props, me, acc.w, scope, principal), "backup")

(* lines 256-272: the configuration returned *)
redshiftConfiguration(d, principal, acc) ==
    IF Failed(acc)
      THEN Effect(acc.w, acc.r)
      ELSE Effect(acc.w, Returned(
             [ clusterJdbcurl |-> [endpoint |-> d.ext.cluster.path, database |-> d.ext.database],
               copyCommand |-> [ dataTableName |-> d.ext.tableName,
                                 dataTableColumns |-> d.ext.tableColumns,
                                 copyOptions |-> d.ext.copyOptions ],
               password |-> acc.user.password,
               username |-> acc.user.username,
               s3Configuration |->
                   [ bucketArn |-> acc.bucket,
                     roleArn |-> principal,
                     bufferingHints |-> acc.bufferingHints,
                     cloudWatchLoggingOptions |-> acc.s3Logging,
                     compressionFormat |-> IF IsSome(d.ext.compression)
                                             THEN Val(d.ext.compression) ELSE "UNCOMPRESSED" ],
               roleArn |-> principal,
               cloudWatchLoggingOptions |-> acc.logging,
               processingConfiguration |-> acc.processing,
               retryOptions |-> createRetryOptions(d.ext.retryTimeout),
               s3BackupConfiguration |-> acc.backup,
               s3BackupMode |-> IF d.props.backup = Some(BackupModeALL) THEN "Enabled" ELSE "Disabled" ]))

(* one statement, skipped once an earlier one has thrown *)
redshiftStep(d, me, scope, principal, k, acc) ==
    IF Failed(acc) THEN acc
    ELSE CASE k = 1 -> tableStep(d, me, scope, principal, acc)
           [] k = 2 -> userStep(d, me, scope, principal, acc)
           [] k = 3 -> intermediateBucketStep(d, me, scope, principal, acc)
           [] k = 4 -> bufferingHintsStep(d, me, scope, principal, acc)
           [] k = 5 -> s3LoggingStep(d, me, scope, principal, acc)
           [] k = 6 -> accessRoleStep(d, me, scope, principal, acc)
           [] k = 7 -> loggingStep(d, me, scope, principal, acc)
           [] k = 8 -> processingStep(d, me, scope, principal, acc)
           [] k = 9 -> backupStep(d, me, scope, principal, acc)

(* the first k statements of createRedshiftConfig, in the order of the code *)
RECURSIVE redshiftSteps(_, _, _, _, _, _)
redshiftSteps(d, me, scope, principal, k, w) ==
    IF k = 0
      THEN RedshiftSteps(w)
      ELSE redshiftStep(d, me, scope, principal, k, redshiftSteps(d, me, scope, principal, k - 1, w))

createRedshiftConfig(d, me, w, scope, principal) ==
    redshiftConfiguration(d, principal, redshiftSteps(d, me, scope, principal, 9, w))

(* { properties: { redshiftDestinationConfiguration: config } } *)
redshiftProperties(config) ==
    IF Failed(config)
      THEN config
      ELSE Effect(config.w, Returned("redshiftDestinationConfiguration" :> Some(config.r.value)))

(* RedshiftDestination.bind *)
RedshiftDestination_bind(d, me, w, scope, principal) ==
    redshiftProperties(createRedshiftConfig(d, me, w, scope, principal))

(* an IDestination written by the user: bind returns the schema-less      *)
(* properties object the destination was made with                         *)
customDestination_bind(d, me, w, scope, principal) == Effect(w, Returned(d.ext.properties))

(* IDestination.bind, by the class of the destination *)
bind(d, me, w, scope, principal) ==
    CASE d.kind = "s3" -> S3Destination_bind(d, me, w, scope, principal)
      [] d.kind = "elasticsearch" -> ElasticsearchDestination_bind(d, me, w, scope, principal)
      [] d.kind = "redshift" -> RedshiftDestination_bind(d, me, w, scope, principal)
      [] d.kind = "mock" -> mockS3Destination_bind(d, me, w, scope, principal)
      [] d.kind = "custom" -> customDestination_bind(d, me, w, scope, principal)

(***************************************************************************)
(* DeliveryStream (enum StreamEncryption, DeliveryStreamProps, constructor) *)
(***************************************************************************)
StreamEncryptionUNENCRYPTED == 0

StreamEncryptionCUSTOMER_MANAGED == 1

StreamEncryptionAWS_OWNED == 2

StreamEncryptions == {StreamEncryptionUNENCRYPTED, StreamEncryptionCUSTOMER_MANAGED, StreamEncryptionAWS_OWNED}

(* the template literal prints the enum's number *)
ErrEncryptionKey(encryption) ==
    CASE encryption = StreamEncryptionUNENCRYPTED ->
           "Specified stream encryption as 0 but provided a customer-managed key"
      [] encryption = StreamEncryptionCUSTOMER_MANAGED ->
           "Specified stream encryption as 1 but provided a customer-managed key"
      [] encryption = StreamEncryptionAWS_OWNED ->
           "Specified stream encryption as 2 but provided a customer-managed key"

(* props.destination.bind with props.destination undefined *)
ErrTypeError == "TypeError: Cannot read property 'bind' of undefined"

(* the props object as the constructor receives it: `destination` is the    *)
(* field it reads (an index into the destinations built so far);            *)
(* `destinations` is the list the package's tests pass, which it never reads *)
DeliveryStreamProps(role, encryption, encryptionKey, sourceStream, deliveryStreamName, destination, destinations) ==
    [ role |-> role, encryption |-> encryption, encryptionKey |-> encryptionKey,
      sourceStream |-> sourceStream, deliveryStreamName |-> deliveryStreamName,
      destination |-> destination, destinations |-> destinations ]

(* emitResource leaving the encryption configuration out of the resource *)
emitResource_NoEncryptionInput(this, props, role, encryptionConfig, streamSourceConfig, destinationConfig) ==
    IF Failed(destinationConfig)
      THEN destinationConfig
      ELSE Effect(
             World(destinationConfig.w.memo,
                   destinationConfig.w.constructs
                     \cup {Construct(this \o <<"Resource">>, "AWS::KinesisFirehose::DeliveryStream", 0)},
                   destinationConfig.w.grants),
             Returned(
               [ path |-> this \o <<"Resource">>,
                 properties |->
                     destinationConfig.r.value
                       @@ ("deliveryStreamEncryptionConfigurationInput" :> None)
                       @@ ("deliveryStreamName" :> props.deliveryStreamName)
                       @@ ("deliveryStreamType" :>
                             Some(IF IsSome(props.sourceStream)
                                    THEN "KinesisStreamAsSource" ELSE "DirectPut"))
                       @@ ("kinesisStreamSourceConfiguration" :> streamSourceConfig),
                 dependsOn |-> {role} ]))

(* lines 353-360: the CfnDeliveryStream emitted from what bind returned;   *)
(* the destination's properties are spread last                             *)
emitResource(this, props, role, encryptionConfig, streamSourceConfig, destinationConfig) ==
    IF Failed(destinationConfig)
      THEN destinationConfig
      ELSE Effect(
             World(destinationConfig.w.memo,
                   destinationConfig.w.constructs
                     \cup {Construct(this \o <<"Resource">>, "AWS::KinesisFirehose::DeliveryStream", 0)},
                   destinationConfig.w.grants),
             Returned(
               [ path |-> this \o <<"Resource">>,
                 properties |->
                     destinationConfig.r.value
                       @@ ("deliveryStreamEncryptionConfigurationInput" :> encryptionConfig)
                       @@ ("deliveryStreamName" :> props.deliveryStreamName)
                       @@ ("deliveryStreamType" :>
                             Some(IF IsSome(props.sourceStream)
                                    THEN "KinesisStreamAsSource" ELSE "DirectPut"))
                       @@ ("kinesisStreamSourceConfiguration" :> streamSourceConfig),
                 dependsOn |-> {role} ]))

(* the constructor binding the destination before it validates the        *)
(* encryption                                                               *)
encryptAndBind_BindsFirst(this, props, ds, w, role) ==
    IF (props.encryption = Some(StreamEncryptionAWS_OWNED)
          \/ props.encryption = Some(StreamEncryptionUNENCRYPTED))
       /\ IsSome(props.encryptionKey)
      THEN Effect(IF IsSome(props.destination)
                    THEN bind(ds[Val(props.destination)], Val(props.destination), w, this, role).w
                    ELSE w,
                  Thrown(ErrEncryptionKey(Val(props.encryption))))
      ELSE
        LET createsKey == ~IsSome(props.encryptionKey)
                            /\ props.encryption = Some(StreamEncryptionCUSTOMER_MANAGED)
            encryptionKey == IF createsKey THEN Some(this \o <<"Key">>) ELSE props.encryptionKey
            encryptionConfig ==
                IF IsSome(encryptionKey) \/ props.encryption = Some(StreamEncryptionAWS_OWNED)
                  THEN Some([ keyArn |-> encryptionKey,
                              keyType |-> IF IsSome(encryptionKey)
                                            THEN "CUSTOMER_MANAGED_CMK" ELSE "AWS_OWNED_CMK" ])
                  ELSE None
            streamSourceConfig ==
                IF IsSome(props.sourceStream)
                  THEN Some([kinesisStreamArn |-> Val(props.sourceStream), roleArn |-> role])
                  ELSE None
            w2 == World(w.memo,
                        w.constructs
                          \cup (IF createsKey THEN {Construct(this \o <<"Key">>, "AWS::KMS::Key", 0)} ELSE {}),
                        w.grants
                          \cup (IF IsSome(encryptionKey)
                                  THEN {Grant(role, Val(encryptionKey), "encryptDecrypt")} ELSE {})
                          \cup (IF IsSome(props.sourceStream)
                                  THEN {Grant(role, Val(props.sourceStream), "read")} ELSE {}))
        IN IF ~IsSome(props.destination)
             THEN Effect(w2, Thrown(ErrTypeError))
             ELSE emitResource(this, props, role, encryptionConfig, streamSourceConfig,
                               bind(ds[Val(props.destination)], Val(props.destination), w2, this, role))

(* lines 335-351, given the role resolved and the tree holding this and it *)
encryptAndBind(this, props, ds, w, role) ==
    IF (props.encryption = Some(StreamEncryptionAWS_OWNED)
          \/ props.encryption = Some(StreamEncryptionUNENCRYPTED))
       /\ IsSome(props.encryptionKey)
      THEN Effect(w, Thrown(ErrEncryptionKey(Val(props.encryption))))
      ELSE
        LET createsKey == ~IsSome(props.encryptionKey)
                            /\ props.encryption = Some(StreamEncryptionCUSTOMER_MANAGED)
            encryptionKey == IF createsKey THEN Some(this \o <<"Key">>) ELSE props.encryptionKey
            encryptionConfig ==
                IF IsSome(encryptionKey) \/ props.encryption = Some(StreamEncryptionAWS_OWNED)
                  THEN Some([ keyArn |-> encryptionKey,
                              keyType |-> IF IsSome(encryptionKey)
                                            THEN "CUSTOMER_MANAGED_CMK" ELSE "AWS_OWNED_CMK" ])
                  ELSE None
            streamSourceConfig ==
                IF IsSome(props.sourceStream)
                  THEN Some([kinesisStreamArn |-> Val(props.sourceStream), roleArn |-> role])
                  ELSE None
            w2 == World(w.memo,
                        w.constructs
                          \cup (IF createsKey THEN {Construct(this \o <<"Key">>, "AWS::KMS::Key", 0)} ELSE {}),
                        w.grants
                          \cup (IF IsSome(encryptionKey)
                                  THEN {Grant(role, Val(encryptionKey), "encryptDecrypt")} ELSE {})
                          \cup (IF IsSome(props.sourceStream)
                                  THEN {Grant(role, Val(props.sourceStream), "read")} ELSE {}))
        IN IF ~IsSome(props.destination)
             THEN Effect(w2, Thrown(ErrTypeError))
             ELSE emitResource(this, props, role, encryptionConfig, streamSourceConfig,
                               bind(ds[Val(props.destination)], Val(props.destination), w2, this, role))

(* new DeliveryStream(stack, id, props), with id free in the stack; ds are  *)
(* the destinations, w.memo the logGroup field of the one props.destination *)
(* names                                                                    *)
DeliveryStream(id, props, ds, w) ==
    encryptAndBind(
        StackScope \o <<id>>, props, ds,
        World(w.memo,
              w.constructs \cup {Construct(StackScope \o <<id>>, "DeliveryStream", 0)}
                \cup (IF IsSome(props.role)
                        THEN {}
                        ELSE {Construct(StackScope \o <<id, "Service Role">>, "AWS::IAM::Role", 0)}),
              w.grants),
        IF IsSome(props.role) THEN Val(props.role) ELSE roleArn(StackScope \o <<id, "Service Role">>))

(***************************************************************************)
(* Destinations and delivery streams built in one Stack (SpecStream).      *)
(***************************************************************************)
MaxDestinations == 1

StreamNames == {"Delivery Stream"}

Destination(kind, props, ext) == [kind |-> kind, props |-> props, ext |-> ext, logGroup |-> None]

LoggingProps ==
    { [DefaultProps EXCEPT !.logging = l, !.logGroup = g] :
        l \in {None, Some(TRUE), Some(FALSE)}, g \in {None, Some(UserLogGroup)} }

BackupProps ==
    { [DefaultProps EXCEPT !.backup = m, !.backupBucket = k] :
        m \in {None} \cup { Some(x) : x \in BackupModes }, k \in {None, Some(UserBucket)} }

S3DestinationProps ==
    [ bucket : {UserBucket}, prefix : {None}, errorOutputPrefix : {None},
      compressionFormat : {None}, encryptionKey : {None, Some(UserKey)},
      bufferingInterval : {None, Some(Duration(59, "seconds")), Some(Duration(60, "seconds"))},
      bufferingSize : {None, Some(Size(1, "mebibytes"))} ]

ElasticsearchDestinationProps == [domain : {UserDomain}, indexName : {"my_index"}]

PublicCluster == Cluster(TRUE, Some([hasPublic |-> TRUE]), TRUE, Some(UserMasterSecret))

Clusters ==
    { PublicCluster,
      Cluster(FALSE, Some([hasPublic |-> TRUE]), TRUE, Some(UserMasterSecret)),
      Cluster(TRUE, Some([hasPublic |-> FALSE]), TRUE, Some(UserMasterSecret)),
      Cluster(TRUE, None, FALSE, None),
      Cluster(TRUE, Some([hasPublic |-> TRUE]), FALSE, None) }

RedshiftUser(password) == [username |-> "firehose", password |-> password, encryptionKey |-> None]

DefaultRedshiftProps ==
    [ cluster |-> PublicCluster, user |-> RedshiftUser(None), database |-> "database",
      tableName |-> "tableName", tableColumns |-> <<"col1", "col2">>,
      masterSecret |-> None, copyOptions |-> None, retryTimeout |-> None,
      intermediateBucket |-> None, bucketAccessRole |-> None,
      bufferingInterval |-> None, bufferingSize |-> None, compression |-> None ]

RedshiftDestinationProps ==
    { [DefaultRedshiftProps EXCEPT !.cluster = c] : c \in Clusters }
      \cup { [DefaultRedshiftProps EXCEPT !.cluster = Cluster(TRUE, Some([hasPublic |-> TRUE]), FALSE, None),
                                          !.masterSecret = Some(UserMasterSecret)] }
      \cup { [DefaultRedshiftProps EXCEPT !.retryTimeout = Some(t)] :
               t \in { Duration(1, "hours"), Duration(7200, "seconds"),
                       Duration(7201, "seconds"), Duration(3, "hours") } }
      \cup { [DefaultRedshiftProps EXCEPT !.compression = Some(z)] : z \in {"GZIP", "Snappy", "ZIP"} }
      \cup { [DefaultRedshiftProps EXCEPT !.user = RedshiftUser(Some("password")),
                                          !.intermediateBucket = Some(UserBucket),
                                          !.bucketAccessRole = Some(UserBucketAccessRole),
                                          !.copyOptions = Some("json 'auto'"),
                                          !.bufferingInterval = i, !.bufferingSize = z] :
               i \in {None, Some(Duration(1, "minutes")), Some(Duration(16, "minutes"))},
               z \in {None, Some(Size(129, "mebibytes"))} }

(* what the user created in the stack before *)
UserResources ==
    { Construct(UserLogGroup, "AWS::Logs::LogGroup", 0),
      Construct(UserBucket, "AWS::S3::Bucket", 0),
      Construct(UserDomain, "AWS::Elasticsearch::Domain", 0),
      Construct(UserCluster, "AWS::Redshift::Cluster", 0),
      Construct(UserKey, "AWS::KMS::Key", 0),
      Construct(UserSourceStream, "AWS::Kinesis::Stream", 0),
      Construct(UserBucketAccessRole, "AWS::IAM::Role", 0),
      Construct(LambdaFunction, "AWS::Lambda::Function", 0) }

InitStream ==
    /\ binders = <<>>
    /\ constructs = UserResources
    /\ grants = {}
    /\ logCalls = <<>>
    /\ last = NoCall
    /\ nCalls = 0
    /\ streams = {}

(* a destination constructed: kept when its constructor returns *)
AddDestination(d, r) ==
    /\ binders' = IF r.outcome = "error" THEN binders ELSE Append(binders, d)
    /\ last' = [NoCall EXCEPT !.op = "newDestination", !.result = r, !.input = d]
    /\ UNCHANGED <<constructs, grants, logCalls, nCalls, streams>>

NewS3Destination ==
    \E p \in LoggingProps, x \in S3DestinationProps :
        /\ Len(binders) < MaxDestinations
        /\ (p # DefaultProps =>
              x.encryptionKey = None /\ x.bufferingInterval = None /\ x.bufferingSize = None)
        /\ AddDestination(Destination("s3", p, x), Returned(NoValue))

NewElasticsearchDestination ==
    \E p \in LoggingProps \cup BackupProps, x \in ElasticsearchDestinationProps :
        /\ Len(binders) < MaxDestinations
        /\ AddDestination(Destination("elasticsearch", p, x), Returned(NoValue))

NewRedshiftDestination ==
    \E p \in LoggingProps \cup BackupProps
                \cup { [DefaultProps EXCEPT !.processors = l] : l \in ProcessorLists },
       x \in RedshiftDestinationProps :
        /\ Len(binders) < MaxDestinations
        /\ (p # DefaultProps => x \in {DefaultRedshiftProps})
        /\ AddDestination(Destination("redshift", p, x), RedshiftDestination_new(p, x))

NewMockDestination ==
    /\ Len(binders) < MaxDestinations
    /\ AddDestination(Destination("mock", DefaultProps, NoValue), Returned(NoValue))

(* property objects of user-written destinations: the destination's own   *)
(* configuration together with keys of CfnDeliveryStreamProps              *)
CustomProperties ==
    { ("s3DestinationConfiguration" :> Some([bucketArn |-> "arn:aws:s3:::my-bucket",
                                             roleArn |-> "arn:aws:iam::111122223333:role/my-role"]))
        @@ ("deliveryStreamType" :> Some("KinesisStreamAsSource")),
      ("s3DestinationConfiguration" :> Some([bucketArn |-> "arn:aws:s3:::my-bucket",
                                             roleArn |-> "arn:aws:iam::111122223333:role/my-role"]))
        @@ ("deliveryStreamName" :> Some("another-name")) }

NewCustomDestination ==
    \E properties \in CustomProperties :
        /\ Len(binders) < MaxDestinations
        /\ AddDestination(Destination("custom", DefaultProps, [properties |-> properties]),
                          Returned(NoValue))

(* the props a DeliveryStream is constructed with *)
DeliveryStreamPropsSet ==
    { DeliveryStreamProps(r, e, k, s, None, Some(b), None) :
        r \in {None, Some(DeliveryStreamRole)},
        e \in {None} \cup { Some(m) : m \in StreamEncryptions },
        k \in {None, Some(UserKey)},
        s \in {None, Some(UserSourceStream)},
        b \in DOMAIN binders }
      \cup { DeliveryStreamProps(None, None, None, None, Some("my-stream"), Some(b), None) :
               b \in DOMAIN binders }
      \cup { DeliveryStreamProps(None, None, None, None, None, None, Some(l)) :
               l \in {<<>>} \cup { <<b>> : b \in DOMAIN binders }
                      \cup { <<a, b>> : a \in DOMAIN binders, b \in DOMAIN binders } }

(* what a constructor call e leaves in the state; b is the destination   *)
(* props.destination names (0 for none), memo its logGroup before the call *)
Constructed(id, props, b, memo, e) ==
    /\ binders' = IF b # 0 THEN [binders EXCEPT ![b].logGroup = e.w.memo] ELSE binders
    /\ constructs' = e.w.constructs
    /\ grants' = e.w.grants
    /\ streams' = IF Failed(e) THEN streams ELSE streams \cup {e.r.value}
    /\ last' = [NoCall EXCEPT !.op = "DeliveryStream", !.binder = b,
                              !.scope = StackScope \o <<id>>, !.streamId = id,
                              !.result = e.r,
                              !.created = e.w.constructs \ constructs,
                              !.granted = e.w.grants \ grants,
                              !.memoBefore = memo, !.input = props]
    /\ UNCHANGED <<logCalls, nCalls>>

BoundMemo(props) == IF IsSome(props.destination) THEN binders[Val(props.destination)].logGroup ELSE None

NewDeliveryStream ==
    \E id \in StreamNames, props \in DeliveryStreamPropsSet :
        /\ ~HasConstruct(constructs, StackScope \o <<id>>)
        /\ Constructed(id, props,
                       IF IsSome(props.destination) THEN Val(props.destination) ELSE 0,
                       BoundMemo(props),
                       DeliveryStream(id, props, binders, World(BoundMemo(props), constructs, grants)))

NextStream ==
    \/ NewS3Destination
    \/ NewElasticsearchDestination
    \/ NewRedshiftDestination
    \/ NewMockDestination
    \/ NewCustomDestination
    \/ NewDeliveryStream

SpecStream == InitStream /\ [][NextStream]_vars

(***************************************************************************)
(* ElasticsearchDomain: the constructor and its index name validation      *)
(* (SpecDomain).  An index name is the sequence of its characters.          *)
(***************************************************************************)
MaxIndexNameLen == 3

UpperCaseLetters ==
    { "A", "B", "C", "D", "E", "F", "G", "H", "I", "J", "K", "L", "M",
      "N", "O", "P", "Q", "R", "S", "T", "U", "V", "W", "X", "Y", "Z" }

IndexChars == {"_", ",", "a", "M"}

IndexNames == UNION { [1..n -> IndexChars] : n \in 0..MaxIndexNameLen }

RetryIntervals ==
    { None, Some(Duration(0, "seconds")), Some(Duration(7200, "seconds")),
      Some(Duration(7201, "seconds")), Some(Duration(3, "hours")) }

ElasticsearchDomainProps(indexName, retryInterval) ==
    [indexName |-> indexName, retryInterval |-> retryInterval]

(* the string `${this.props.indexName}` *)
RECURSIVE interpolate(_)
interpolate(name) ==
    IF name = <<>> THEN "" ELSE Head(name) \o interpolate(Tail(name))

(* /^_.*/ *)
startsWithUnderscore(name) == Len(name) > 0 /\ name[1] = "_"

(* the test anchored at the first character, as /^[A-Z].*/ *)
capitalLetters_FirstOnly(name) == Len(name) > 0 /\ name[1] \in UpperCaseLetters

(* /[A-Z].*/ *)
capitalLetters(name) == \E i \in 1..Len(name) : name[i] \in UpperCaseLetters

(* /,/ *)
commas(name) == \E i \in 1..Len(name) : name[i] = ","

ErrIndexUnderscore(name) ==
    "Elasticsearch index name must not begin with an underscore. indexName provided: " \o interpolate(name)

ErrIndexLowerCase(name) ==
    "Elasticsearch index name must be lower-case. indexName provided: " \o interpolate(name)

ErrIndexCommas(name) ==
    "Elasticsearch index name must not contain commas. indexName provided: " \o interpolate(name)

ErrRetryInterval == "retry interval too big"

validateIndexName(props) ==
    IF startsWithUnderscore(props.indexName) THEN Thrown(ErrIndexUnderscore(props.indexName))
    ELSE IF capitalLetters(props.indexName) THEN Thrown(ErrIndexLowerCase(props.indexName))
    ELSE IF commas(props.indexName) THEN Thrown(ErrIndexCommas(props.indexName))
    ELSE Undefined

(* new ElasticsearchDomain(domain, props): the fields kept, or the error *)
ElasticsearchDomain_new(domain, props) ==
    IF IsSome(props.retryInterval)
         /\ toSeconds(Val(props.retryInterval)) # 0
         /\ toSeconds(Val(props.retryInterval)) > 7200
      THEN Thrown(ErrRetryInterval)
    ELSE IF validateIndexName(props).outcome = "error"
      THEN validateIndexName(props)
    ELSE Returned([domain |-> domain] @@ props)

InitDomain == InitStream

(* one destination constructed at a time: the constructor reads only its *)
(* arguments, so constructions before it do not matter                    *)

NewElasticsearchDomain ==
    \E indexName \in IndexNames, retryInterval \in RetryIntervals :
        /\ binders = <<>>
        /\ AddDestination(Destination("elasticsearchDomain", DefaultProps,
                                      [domain |-> UserDomain]
                                        @@ ElasticsearchDomainProps(indexName, retryInterval)),
                          ElasticsearchDomain_new(UserDomain, ElasticsearchDomainProps(indexName, retryInterval)))

NextDomain == NewElasticsearchDomain

SpecDomain == InitDomain /\ [][NextDomain]_vars

(***************************************************************************)
(* DeliveryStream.fromDeliveryStreamAttributes (SpecImport).  An ARN is its *)
(* text together with the resource name Stack.parseArn finds in it.         *)
(***************************************************************************)
MaxImports == 2

Arn(raw, resourceName) == [raw |-> raw, resourceName |-> resourceName]

(* Stack.of(scope).parseArn(arn).resourceName *)
parseArnResourceName(arn) == arn.resourceName

(* Stack.of(scope).formatArn({ service: 'firehose', resource: 'deliverystream', resourceName }) *)
formatArn(resourceName) ==
    Arn("arn:${AWS::Partition}:firehose:${AWS::Region}:${AWS::AccountId}:deliverystream/" \o resourceName,
        Some(resourceName))

ErrNoNameOrArn == "Either deliveryStreamName or deliveryStreamArn must be provided in DeliveryStreamAttributes"

ErrMalformattedArn(arn) ==
    "Could not import delivery stream from malformatted ARN " \o arn \o ": could not determine resource name"

(* new iam.UnknownPrincipal({ resource: this }) *)
UnknownPrincipal(resource) == [unknownPrincipal |-> resource]

DeliveryStreamAttributes(deliveryStreamArn, deliveryStreamName, role) ==
    [deliveryStreamArn |-> deliveryStreamArn, deliveryStreamName |-> deliveryStreamName, role |-> role]

(* a string or undefined in a condition *)
Truthy(s) == IsSome(s) /\ Val(s) # ""

(* fromDeliveryStreamAttributes without the test of the extracted name *)
fromDeliveryStreamAttributes_NoNameCheck(scope, id, attrs) ==
    IF ~Truthy(attrs.deliveryStreamName)
         /\ ~(IsSome(attrs.deliveryStreamArn) /\ Val(attrs.deliveryStreamArn).raw # "")
      THEN Thrown(ErrNoNameOrArn)
      ELSE Returned(
             [ deliveryStreamName |->
                   NullishOr(attrs.deliveryStreamName,
                             IF IsSome(attrs.deliveryStreamArn)
                               THEN parseArnResourceName(Val(attrs.deliveryStreamArn)) ELSE None),
               deliveryStreamArn |->
                   IF IsSome(attrs.deliveryStreamArn)
                     THEN Val(attrs.deliveryStreamArn)
                     ELSE formatArn(Val(attrs.deliveryStreamName)),
               grantPrincipal |->
                   IF IsSome(attrs.role) THEN Val(attrs.role) ELSE UnknownPrincipal(scope \o <<id>>) ])

(* lines 293-313: the Import object or the Error *)
fromDeliveryStreamAttributes(scope, id, attrs) ==
    IF ~Truthy(attrs.deliveryStreamName)
         /\ ~(IsSome(attrs.deliveryStreamArn) /\ Val(attrs.deliveryStreamArn).raw # "")
      THEN Thrown(ErrNoNameOrArn)
    ELSE IF ~Truthy(NullishOr(attrs.deliveryStreamName,
                              parseArnResourceName(Val(attrs.deliveryStreamArn))))
      THEN Thrown(ErrMalformattedArn(IF IsSome(attrs.deliveryStreamArn)
                                       THEN Val(attrs.deliveryStreamArn).raw ELSE "undefined"))
    ELSE Returned(
           [ deliveryStreamName |->
                 Val(NullishOr(attrs.deliveryStreamName,
                               parseArnResourceName(Val(attrs.deliveryStreamArn)))),
             deliveryStreamArn |->
                 IF IsSome(attrs.deliveryStreamArn)
                   THEN Val(attrs.deliveryStreamArn)
                   ELSE formatArn(Val(attrs.deliveryStreamName)),
             grantPrincipal |->
                 IF IsSome(attrs.role) THEN Val(attrs.role) ELSE UnknownPrincipal(scope \o <<id>>) ])

StreamArns ==
    { Arn("arn:aws:firehose:xx-west-1:111122223333:deliverystream/mydeliverystream", Some("mydeliverystream")),
      Arn("arn:aws:firehose:xx-west-1:111122223333:deliverystream/", Some("")),
      Arn("arn:aws:firehose:xx-west-1:111122223333:deliverystream", None),
      Arn("", None) }

AttributeNames == {"", "mydeliverystream", "anotherdeliverystream"}

ImportIds == {"DeliveryStream", "Another DeliveryStream"}

DeliveryStreamAttributesSet ==
    { DeliveryStreamAttributes(a, n, r) :
        a \in {None} \cup { Some(x) : x \in StreamArns },
        n \in {None} \cup { Some(x) : x \in AttributeNames },
        r \in {None, Some(DeliveryStreamRole)} }

InitImport == InitStream

FromDeliveryStreamAttributes ==
    \E id \in ImportIds, attrs \in DeliveryStreamAttributesSet :
        /\ nCalls < MaxImports
        /\ ~HasConstruct(constructs, StackScope \o <<id>>)
        /\ constructs' =
              IF fromDeliveryStreamAttributes(StackScope, id, attrs).outcome = "error"
                THEN constructs
                ELSE constructs \cup {Construct(StackScope \o <<id>>, "Import", 0)}
        /\ last' = [NoCall EXCEPT !.op = "fromDeliveryStreamAttributes",
                                  !.scope = StackScope \o <<id>>, !.streamId = id,
                                  !.result = fromDeliveryStreamAttributes(StackScope, id, attrs),
                                  !.created = constructs' \ constructs,
                                  !.input = attrs]
        /\ nCalls' = nCalls + 1
        /\ UNCHANGED <<binders, grants, logCalls, streams>>

NextImport == FromDeliveryStreamAttributes

SpecImport == InitImport /\ [][NextImport]_vars

(***************************************************************************)
(* Two delivery streams built in one Stack from two destinations that were *)
(* constructed before, alike or not, each given to either stream           *)
(* (SpecShared).                                                           *)
(***************************************************************************)
SharedStreamNames == {"Delivery Stream", "Another Delivery Stream"}

SharedDestinations ==
    { Destination("redshift", p, DefaultRedshiftProps) : p \in LoggingProps }
      \cup { Destination("redshift", DefaultProps,
                         [DefaultRedshiftProps EXCEPT !.user = RedshiftUser(Some("password")),
                                                      !.intermediateBucket = Some(UserBucket),
                                                      !.bucketAccessRole = Some(UserBucketAccessRole)]),
             Destination("s3", DefaultProps,
                         [ bucket |-> UserBucket, prefix |-> None, errorOutputPrefix |-> None,
                           compressionFormat |-> None, encryptionKey |-> None,
                           bufferingInterval |-> None, bufferingSize |-> None ]),
             Destination("elasticsearch", DefaultProps, [domain |-> UserDomain, indexName |-> "my_index"]),
             Destination("mock", DefaultProps, NoValue) }

InitShared ==
    /\ \E first \in SharedDestinations, second \in SharedDestinations :
          binders = <<first, second>>
    /\ constructs = UserResources
    /\ grants = {}
    /\ logCalls = <<>>
    /\ last = NoCall
    /\ nCalls = 0
    /\ streams = {}

(* new DeliveryStream(stack, id, { destination }) *)
NewSharedDeliveryStream ==
    \E id \in SharedStreamNames, b \in DOMAIN binders :
        /\ ~HasConstruct(constructs, StackScope \o <<id>>)
        /\ Constructed(id, DeliveryStreamProps(None, None, None, None, None, Some(b), None),
                       b, binders[b].logGroup,
                       DeliveryStream(id, DeliveryStreamProps(None, None, None, None, None, Some(b), None),
                                      binders, World(binders[b].logGroup, constructs, grants)))

NextShared == NewSharedDeliveryStream

SpecShared == InitShared /\ [][NextShared]_vars

(***************************************************************************)
(* Claims.                                                                 *)
(***************************************************************************)
PropsOf(b) == binders[b].props

ConstructsBefore == constructs \ last.created

CreatedOfType(type) == { c \in last.created : c.type = type }

(* the message the package's test of the constructor expects *)
ErrOnlyOneDestination == "Only one destination is allowed per delivery stream"

(* how many destinations the props name, in either form *)
DestinationsSupplied(props) ==
    IF IsSome(props.destinations) THEN Len(Val(props.destinations))
    ELSE IF IsSome(props.destination) THEN 1
    ELSE 0

(* C1: constructing a DeliveryStream with zero destinations or with more    *)
(* than one fails with 'Only one destination is allowed per delivery        *)
(* stream'; it succeeds only when exactly one destination is supplied.      *)
C1_ExactlyOneDestination ==
    (last.op = "DeliveryStream") =>
        /\ (DestinationsSupplied(last.input) # 1) => (last.result = Thrown(ErrOnlyOneDestination))
        /\ (last.result.outcome = "value") => (DestinationsSupplied(last.input) = 1)

(* C2: with no size supplied, createBufferingHints(i, absent) fails iff i is *)
(* below 60 s or above 900 s (60 and 900 accepted); otherwise it returns     *)
(* intervalInSeconds = i in seconds.                                         *)
C2_IntervalRange ==
    (last.op = "createBufferingHints" /\ IsSome(last.interval) /\ ~IsSome(last.size)) =>
        LET i == toSeconds(Val(last.interval))
        IN /\ (last.result.outcome = "error") <=> (i < 60 \/ i > 900)
           /\ (last.result.outcome = "error") => last.result.error = ErrBufferingInterval
           /\ (last.result.outcome # "error") =>
                 /\ last.result.outcome = "value"
                 /\ last.result.value.intervalInSeconds = Some(i)

C2_Witness ==
    /\ last.op = "createBufferingHints"
    /\ last.interval = Some(Duration(15, "minutes"))
    /\ last.size = None
    /\ last.result.outcome = "value"
    /\ last.result.value.intervalInSeconds = Some(900)

(* C3: with no interval supplied, createBufferingHints(absent, s) fails iff  *)
(* s is below 1 MiB or above 128 MiB; 1 and 128 are accepted and a supplied  *)
(* 0 MiB is rejected, not treated as absent.                                 *)
C3_SizeRange ==
    (last.op = "createBufferingHints" /\ ~IsSome(last.interval) /\ IsSome(last.size)) =>
        LET m == toMebibytes(Val(last.size))
        IN /\ (last.result.outcome = "error") <=> (m < 1 \/ m > 128)
           /\ (last.result.outcome = "error") => last.result.error = ErrBufferingSize
           /\ (last.result.outcome # "error") => last.result.outcome = "value"

C3_Witness ==
    /\ last.op = "createBufferingHints"
    /\ last.interval = None
    /\ last.size = Some(Size(0, "mebibytes"))
    /\ last.result = Thrown(ErrBufferingSize)

(* C4: createBufferingHints returns absent when both inputs are absent; with *)
(* exactly one in-range input the hint has that field populated and the      *)
(* other left absent, never defaulted.                                       *)
C4_OnlySuppliedFields ==
    (last.op = "createBufferingHints") =>
        /\ (~IsSome(last.interval) /\ ~IsSome(last.size)) => last.result = Undefined
        /\ (IsSome(last.interval) /\ ~IsSome(last.size)
              /\ toSeconds(Val(last.interval)) \in 60..900) =>
                /\ last.result.outcome = "value"
                /\ last.result.value.intervalInSeconds = Some(toSeconds(Val(last.interval)))
                /\ last.result.value.sizeInMBs = None
        /\ (~IsSome(last.interval) /\ IsSome(last.size)
              /\ toMebibytes(Val(last.size)) \in 1..128) =>
                /\ last.result.outcome = "value"
                /\ last.result.value.sizeInMBs = Some(toMebibytes(Val(last.size)))
                /\ last.result.value.intervalInSeconds = None

C4_Witness ==
    /\ last.op = "createBufferingHints"
    /\ last.interval = None
    /\ last.size = Some(Size(1024, "kibibytes"))
    /\ last.result.outcome = "value"
    /\ last.result.value.sizeInMBs = Some(1)
    /\ last.result.value.intervalInSeconds = None

(* C5: createLoggingOptions on a destination with logging = false and a     *)
(* logGroup supplied always fails with the contradiction message, whatever  *)
(* the other props and the streamId.                                        *)
C5_LoggingContradiction ==
    (last.op = "createLoggingOptions"
       /\ PropsOf(last.binder).logging = Some(FALSE)
       /\ IsSome(PropsOf(last.binder).logGroup)) =>
        last.result = Thrown(ErrLoggingContradiction)

C5_Witness ==
    /\ last.op = "createLoggingOptions"
    /\ PropsOf(last.binder).logging = Some(FALSE)
    /\ IsSome(PropsOf(last.binder).logGroup)
    /\ PropsOf(last.binder).backup = Some(BackupModeALL)
    /\ PropsOf(last.binder).processors = Some(<<DefaultProcessor>>)
    /\ last.streamId = "anotherStreamId"
    /\ nCalls = 3
    /\ last.result = Thrown(ErrLoggingContradiction)

LogCallsOf(b) == SelectSeq(logCalls, LAMBDA c : c.binder = b)

PairwiseDistinctStreamIds(calls) ==
    \A i, j \in DOMAIN calls : i # j => calls[i].streamId # calls[j].streamId

LogGroupsCreatedBy(b) == { c \in constructs : c.type = "AWS::Logs::LogGroup" /\ c.by = b }

(* C6: after any number of createLoggingOptions calls with pairwise distinct *)
(* streamIds on one binder, the binder has created exactly one log group     *)
(* (none when one was supplied in its props), every result references that   *)
(* same log group, and each result references a distinct log stream.         *)
C6_OneLogGroupDistinctStreams ==
    \A b \in DOMAIN binders :
        LET calls == LogCallsOf(b)
            ok    == { i \in DOMAIN calls : calls[i].result.outcome = "value" }
            made  == LogGroupsCreatedBy(b)
        IN PairwiseDistinctStreamIds(calls) =>
             /\ Cardinality(made) =
                   (IF ok # {} /\ ~IsSome(PropsOf(b).logGroup) THEN 1 ELSE 0)
             /\ \A i \in ok :
                   IF IsSome(PropsOf(b).logGroup)
                     THEN calls[i].result.value.logGroupName = Val(PropsOf(b).logGroup)
                     ELSE \A c \in made : calls[i].result.value.logGroupName = c.path
             /\ \A i, j \in ok :
                   calls[i].result.value.logGroupName = calls[j].result.value.logGroupName
             /\ \A i, j \in ok :
                   i # j => calls[i].result.value.logStreamName # calls[j].result.value.logStreamName

C6_Witness ==
    /\ Len(LogCallsOf(1)) = 3
    /\ PairwiseDistinctStreamIds(LogCallsOf(1))
    /\ \A i \in 1..3 : LogCallsOf(1)[i].result.outcome = "value"
    /\ Cardinality(LogGroupsCreatedBy(1)) = 1
    /\ last.scope # StackScope
    /\ HasConstruct(constructs, StackScope \o <<"Log Group">>)

(* what createLoggingOptions needs free in the tree before the call: the id *)
(* 'Log Group' in its scope when it has no group yet, and the stream's id   *)
(* under the group it uses                                                  *)
LoggingIdsFree ==
    LET p        == PropsOf(last.binder)
        existing == NullishOr(last.memoBefore, p.logGroup)
        lg       == IF IsSome(existing) THEN Val(existing) ELSE last.scope \o <<"Log Group">>
    IN /\ IsSome(existing) \/ ~HasConstruct(ConstructsBefore, lg)
       /\ ~HasConstruct(ConstructsBefore, lg \o <<last.streamId>>)

LoggingConfigReturned ==
    /\ last.result.outcome = "value"
    /\ last.result.value.enabled = TRUE
    /\ HasConstruct(constructs, last.result.value.logGroupName)
    /\ HasConstruct(constructs, last.result.value.logStreamName)
    /\ IsSome(PropsOf(last.binder).logGroup) =>
          /\ last.result.value.logGroupName = Val(PropsOf(last.binder).logGroup)
          /\ CreatedOfType("AWS::Logs::LogGroup") = {}

LoggingNothingDone ==
    /\ last.result = Undefined
    /\ last.created = {}

DestinationConfigurationNames ==
    {"s3DestinationConfiguration", "elasticsearchDestinationConfiguration", "redshiftDestinationConfiguration"}

(* the destination configurations of an emitted delivery-stream resource *)
DestinationConfigurations(resource) ==
    { Val(resource.properties[k]) :
        k \in { n \in DOMAIN resource.properties \cap DestinationConfigurationNames :
                  IsSome(resource.properties[n]) } }

LoggingEnabled(config) ==
    /\ "cloudWatchLoggingOptions" \in DOMAIN config
    /\ IsSome(config.cloudWatchLoggingOptions)
    /\ Val(config.cloudWatchLoggingOptions).enabled

(* C8: for S3Destination, ElasticsearchDestination and RedshiftDestination, *)
(* binding a destination for which neither logging nor logGroup was         *)
(* supplied yields a destination configuration whose                        *)
(* CloudWatchLoggingOptions has Enabled = true, and exactly one log group   *)
(* is created by that bind.                                                 *)
C8_LoggingByDefault ==
    (/\ last.op = "DeliveryStream"
     /\ last.result.outcome = "value"
     /\ last.binder # 0
     /\ binders[last.binder].kind \in {"s3", "elasticsearch", "redshift"}
     /\ PropsOf(last.binder).logging = None
     /\ PropsOf(last.binder).logGroup = None)
    => /\ \A config \in DestinationConfigurations(last.result.value) : LoggingEnabled(config)
       /\ DestinationConfigurations(last.result.value) # {}
       /\ Cardinality(CreatedOfType("AWS::Logs::LogGroup")) = 1

(* C9: createBackupConfig on a destination with backup = DISABLED and a     *)
(* backupBucket supplied always fails with the contradiction message and    *)
(* creates no bucket.                                                       *)
C9_BackupContradiction ==
    (last.op = "createBackupConfig"
       /\ PropsOf(last.binder).backup = Some(BackupModeDISABLED)
       /\ IsSome(PropsOf(last.binder).backupBucket)) =>
        /\ last.result = Thrown(ErrBackupContradiction)
        /\ CreatedOfType("AWS::S3::Bucket") = {}

C9_Witness ==
    /\ last.op = "createBackupConfig"
    /\ PropsOf(last.binder).backup = Some(BackupModeDISABLED)
    /\ PropsOf(last.binder).backupBucket = Some(UserBucket)
    /\ last.result = Thrown(ErrBackupContradiction)
    /\ { c \in constructs : c.type = "AWS::S3::Bucket" } = {Construct(UserBucket, "AWS::S3::Bucket", 0)}

(* C10: whenever createBackupConfig returns a backup configuration, the     *)
(* delivery stream's principal has been granted read/write on the bucket it *)
(* names; with backup = ALL and no bucket supplied, a bucket is created and *)
(* the principal is granted read/write on it.                               *)
C10_BackupBucketGranted ==
    (last.op = "createBackupConfig") =>
        /\ (last.result.outcome = "value") =>
              Grant(DeliveryStreamRole, last.result.value.bucketArn, "readWrite") \in grants
        /\ (PropsOf(last.binder).backup = Some(BackupModeALL)
              /\ ~IsSome(PropsOf(last.binder).backupBucket)
              /\ ~HasConstruct(ConstructsBefore, last.scope \o <<"Backup Bucket">>)) =>
              /\ \E c \in CreatedOfType("AWS::S3::Bucket") :
                    Grant(DeliveryStreamRole, c.path, "readWrite") \in grants

(* the id createBackupConfig needs ('Backup Bucket' in its scope, when no   *)
(* bucket is supplied) was free before the call                             *)
BackupIdFree ==
    IsSome(PropsOf(last.binder).backupBucket)
      \/ ~HasConstruct(ConstructsBefore, last.scope \o <<"Backup Bucket">>)

BackupContradictory ==
    PropsOf(last.binder).backup = Some(BackupModeDISABLED) /\ IsSome(PropsOf(last.binder).backupBucket)

(* a backup configuration naming the supplied bucket, or the one created *)
BackupConfigReturned ==
    /\ last.result.outcome = "value"
    /\ last.result.value.bucketArn =
          (IF IsSome(PropsOf(last.binder).backupBucket)
             THEN Val(PropsOf(last.binder).backupBucket)
             ELSE last.scope \o <<"Backup Bucket">>)
    /\ last.result.value.roleArn = DeliveryStreamRole

(* C11 as stated: createBackupConfig treats backup as active whenever the   *)
(* mode is absent or non-disabled, or a bucket is supplied; it returns      *)
(* absent only for mode = DISABLED with no bucket, and a backup             *)
(* configuration for every other non-contradictory input, including neither *)
(* mode nor bucket.  Stated for the calls whose construct id is free.       *)
C11_AsClaimed ==
    (last.op = "createBackupConfig" /\ ~BackupContradictory /\ BackupIdFree) =>
        IF PropsOf(last.binder).backup = Some(BackupModeDISABLED)
          THEN last.result = Undefined
          ELSE BackupConfigReturned

(* C11 amended: backup is active whenever the mode is supplied and          *)
(* non-disabled, or a bucket is supplied; createBackupConfig returns absent *)
(* for mode = DISABLED with no bucket and for neither mode nor bucket, and, *)
(* the id 'Backup Bucket' being free in the scope when it has to create the *)
(* bucket, a backup configuration for every other non-contradictory input.  *)
C11_BackupActive ==
    (last.op = "createBackupConfig" /\ ~BackupContradictory) =>
        IF ~IsSome(PropsOf(last.binder).backupBucket)
             /\ PropsOf(last.binder).backup \in {None, Some(BackupModeDISABLED)}
          THEN last.result = Undefined
          ELSE BackupIdFree => BackupConfigReturned

C11_Witness ==
    /\ last.op = "createBackupConfig"
    /\ PropsOf(last.binder).backup = None
    /\ PropsOf(last.binder).backupBucket = Some(UserBucket)
    /\ BackupConfigReturned
    /\ last.result.value.bucketArn = UserBucket
    /\ last.created = {}

(* C12: createBackupConfig on a destination with neither a backup mode nor  *)
(* a backupBucket returns absent and creates no bucket.                     *)
C12_NoBackupByDefault ==
    (last.op = "createBackupConfig"
       /\ PropsOf(last.binder).backup = None
       /\ PropsOf(last.binder).backupBucket = None) =>
        /\ last.result = Undefined
        /\ CreatedOfType("AWS::S3::Bucket") = {}

C12_Witness ==
    /\ last.op = "createBackupConfig"
    /\ PropsOf(last.binder).backup = None
    /\ PropsOf(last.binder).backupBucket = None
    /\ last.result = Undefined
    /\ last.created = {}
    /\ { c \in constructs : c.type = "AWS::S3::Bucket" } = {}

(* the redshiftDestinationConfiguration of the resource the last          *)
(* DeliveryStream construction emitted from a RedshiftDestination           *)
RedshiftBound ==
    /\ last.op = "DeliveryStream"
    /\ last.result.outcome = "value"
    /\ last.binder # 0
    /\ binders[last.binder].kind = "redshift"

RedshiftConfigurationOf(resource) == Val(resource.properties["redshiftDestinationConfiguration"])

(* C13: in every configuration produced by RedshiftDestination.bind,        *)
(* s3BackupMode is 'Enabled' if and only if s3BackupConfiguration is        *)
(* present, for every non-failing combination of backup mode and            *)
(* backupBucket; a supplied backupBucket with no mode counts as backup ALL. *)
C13_BackupModeAgrees ==
    RedshiftBound =>
        LET config == RedshiftConfigurationOf(last.result.value)
        IN /\ (config.s3BackupMode = "Enabled") <=> IsSome(config.s3BackupConfiguration)
           /\ (PropsOf(last.binder).backup = None /\ IsSome(PropsOf(last.binder).backupBucket))
                 => config.s3BackupMode = "Enabled"

(* the processors the last createProcessingConfig call was given *)
ProcessorsSupplied ==
    IF IsSome(PropsOf(last.binder).processors) THEN Val(PropsOf(last.binder).processors) ELSE <<>>

(* C14: createProcessingConfig fails with 'Only one processor is allowed    *)
(* per delivery stream destination' if and only if more than one processor  *)
(* is supplied; with processors absent or empty it returns absent; with     *)
(* exactly one processor it returns a configuration with enabled = true and *)
(* exactly one processor entry.                                             *)
C14_OneProcessor ==
    last.op = "createProcessingConfig" =>
        /\ (last.result = Thrown(ErrManyProcessors)) <=> (Len(ProcessorsSupplied) > 1)
        /\ last.result.outcome = "error" => last.result = Thrown(ErrManyProcessors)
        /\ Len(ProcessorsSupplied) = 0 => last.result = Undefined
        /\ Len(ProcessorsSupplied) = 1 =>
              /\ last.result.outcome = "value"
              /\ last.result.value.enabled = TRUE
              /\ Len(last.result.value.processors) = 1

C14_Witness ==
    /\ last.op = "createProcessingConfig"
    /\ Len(ProcessorsSupplied) = 2
    /\ last.result = Thrown(ErrManyProcessors)
    /\ last.created = {}
    /\ last.granted = {}

(* the parameter list the contract describes for one processor: the role,  *)
(* the identifier, then one parameter per supplied optional input           *)
SuppliedParameters(processor) ==
    <<Parameter("RoleArn", DeliveryStreamRole), Parameter("LambdaArn", functionArn(processor.lambda))>>
      \o (IF IsSome(processor.bufferInterval)
            THEN <<Parameter("BufferIntervalInSeconds", ToString(toSeconds(Val(processor.bufferInterval))))>>
            ELSE <<>>)
      \o (IF IsSome(processor.bufferSize)
            THEN <<Parameter("BufferSizeInMBs", ToString(toMebibytes(Val(processor.bufferSize))))>>
            ELSE <<>>)
      \o (IF IsSome(processor.retries)
            THEN <<Parameter("NumberOfRetries", ToString(Val(processor.retries)))>>
            ELSE <<>>)

(* C15: for exactly one processor, and for every combination of supplied   *)
(* or absent optional inputs and every non-negative supplied value, the    *)
(* parameter list built by createProcessingConfig is RoleArn, then the      *)
(* processor's identifying parameter, then exactly those of                 *)
(* BufferIntervalInSeconds, BufferSizeInMBs and NumberOfRetries whose input *)
(* was supplied, in that order, each value the decimal string of the        *)
(* supplied seconds, mebibytes or retry count.                              *)
C15_ParametersAsSupplied ==
    (last.op = "createProcessingConfig" /\ Len(ProcessorsSupplied) = 1) =>
        /\ last.result.outcome = "value"
        /\ last.result.value.processors[1].parameters = SuppliedParameters(ProcessorsSupplied[1])

(* the message the package's test of a source stream with encryption expects *)
ErrSourceStreamEncryption ==
    "Requested server-side encryption but delivery stream source is a Kinesis Data Stream. Specify server-side encryption on the Data Stream instead."

(* a server-side encryption request in the props of a DeliveryStream *)
EncryptionRequested(props) ==
    \/ props.encryption = Some(StreamEncryptionAWS_OWNED)
    \/ props.encryption = Some(StreamEncryptionCUSTOMER_MANAGED)
    \/ IsSome(props.encryptionKey)

(* C16: constructing a DeliveryStream with a sourceStream together with any *)
(* server-side encryption request (encryption = AWS_OWNED, encryption =     *)
(* CUSTOMER_MANAGED, or an encryptionKey) fails with 'Requested server-side *)
(* encryption but delivery stream source is a Kinesis Data Stream. Specify  *)
(* server-side encryption on the Data Stream instead.'                      *)
C16_SourceStreamExcludesEncryption ==
    (last.op = "DeliveryStream" /\ IsSome(last.input.sourceStream) /\ EncryptionRequested(last.input)) =>
        last.result = Thrown(ErrSourceStreamEncryption)

(* the message that names the requested mode *)
ErrEncryptionKeyNamed(name) ==
    "Specified stream encryption as " \o name \o " but provided a customer-managed key"

(* C17: constructing a DeliveryStream with encryption = AWS_OWNED or        *)
(* encryption = UNENCRYPTED together with an encryptionKey fails, and the   *)
(* error message names the requested mode: 'Specified stream encryption as  *)
(* AWS_OWNED but provided a customer-managed key' respectively 'Specified   *)
(* stream encryption as UNENCRYPTED but provided a customer-managed key'.   *)
C17_KeyRefusedByName ==
    (last.op = "DeliveryStream" /\ IsSome(last.input.encryptionKey)) =>
        /\ last.input.encryption = Some(StreamEncryptionAWS_OWNED)
              => last.result = Thrown(ErrEncryptionKeyNamed("AWS_OWNED"))
        /\ last.input.encryption = Some(StreamEncryptionUNENCRYPTED)
              => last.result = Thrown(ErrEncryptionKeyNamed("UNENCRYPTED"))

(* the role of the delivery stream the last construction built *)
RoleOf(props) ==
    IF IsSome(props.role) THEN Val(props.role) ELSE roleArn(last.scope \o <<"Service Role">>)

EncryptionInputOf(resource) == resource.properties["deliveryStreamEncryptionConfigurationInput"]

KeysCreated == CreatedOfType("AWS::KMS::Key")

(* the customer-managed configuration on key k, with the role granted *)
CustomerManaged(k) ==
    /\ EncryptionInputOf(last.result.value) = Some([keyArn |-> Some(k), keyType |-> "CUSTOMER_MANAGED_CMK"])
    /\ Grant(RoleOf(last.input), k, "encryptDecrypt") \in grants

(* C18: for every non-failing combination of encryption mode and            *)
(* encryptionKey, the emitted DeliveryStreamEncryptionConfigurationInput is *)
(* {KeyARN of the key, KeyType 'CUSTOMER_MANAGED_CMK'} when a key is        *)
(* supplied or encryption = CUSTOMER_MANAGED (a key being created when none *)
(* is supplied, and the principal granted encrypt/decrypt on it);           *)
(* {KeyType 'AWS_OWNED_CMK'} with no KeyARN and no key created when         *)
(* encryption = AWS_OWNED; and absent, with no key created, when encryption *)
(* is UNENCRYPTED or unspecified and no key is supplied.                    *)
C18_EncryptionInput ==
    (last.op = "DeliveryStream" /\ last.result.outcome = "value") =>
        LET props == last.input
        IN IF IsSome(props.encryptionKey)
             THEN /\ CustomerManaged(Val(props.encryptionKey))
                  /\ KeysCreated = {}
           ELSE IF props.encryption = Some(StreamEncryptionCUSTOMER_MANAGED)
             THEN /\ CustomerManaged(last.scope \o <<"Key">>)
                  /\ KeysCreated = {Construct(last.scope \o <<"Key">>, "AWS::KMS::Key", 0)}
                  /\ Grant(RoleOf(props), last.scope \o <<"Key">>, "encryptDecrypt") \in last.granted
           ELSE IF props.encryption = Some(StreamEncryptionAWS_OWNED)
             THEN /\ EncryptionInputOf(last.result.value) = Some([keyArn |-> None, keyType |-> "AWS_OWNED_CMK"])
                  /\ KeysCreated = {}
           ELSE /\ EncryptionInputOf(last.result.value) = None
                /\ KeysCreated = {}

C18_Witness ==
    /\ last.op = "DeliveryStream"
    /\ last.result.outcome = "value"
    /\ last.input.encryption = Some(StreamEncryptionCUSTOMER_MANAGED)
    /\ last.input.encryptionKey = None
    /\ CustomerManaged(last.scope \o <<"Key">>)
    /\ KeysCreated # {}

(* the index name rules of ElasticsearchDomainProps.indexName, read off the *)
(* name itself                                                              *)
BeginsWithUnderscore(name) == name # <<>> /\ Head(name) = "_"

HasUpperCase(name) == { i \in DOMAIN name : name[i] \in UpperCaseLetters } # {}

HasComma(name) == { i \in DOMAIN name : name[i] = "," } # {}

DomainConstruction == last.op = "newDestination" /\ last.input.kind = "elasticsearchDomain"

IndexNameGiven == last.input.ext.indexName

(* what the claim says of one construction *)
IndexNameRulesDecide ==
    /\ (last.result.outcome = "error")
          <=> (BeginsWithUnderscore(IndexNameGiven) \/ HasUpperCase(IndexNameGiven) \/ HasComma(IndexNameGiven))
    /\ (BeginsWithUnderscore(IndexNameGiven) /\ ~HasUpperCase(IndexNameGiven) /\ ~HasComma(IndexNameGiven))
          => last.result = Thrown(ErrIndexUnderscore(IndexNameGiven))
    /\ (~BeginsWithUnderscore(IndexNameGiven) /\ HasUpperCase(IndexNameGiven) /\ ~HasComma(IndexNameGiven))
          => last.result = Thrown(ErrIndexLowerCase(IndexNameGiven))
    /\ (~BeginsWithUnderscore(IndexNameGiven) /\ ~HasUpperCase(IndexNameGiven) /\ HasComma(IndexNameGiven))
          => last.result = Thrown(ErrIndexCommas(IndexNameGiven))
    /\ (last.result.outcome = "error")
          => (\A b \in DOMAIN binders : binders[b].ext.indexName # IndexNameGiven)
               /\ constructs = UserResources /\ grants = {} /\ streams = {}

(* C19: constructing an ElasticsearchDomain destination fails if and only   *)
(* if indexName begins with an underscore, contains an upper-case letter    *)
(* A-Z, or contains a comma; a name violating exactly one rule fails with   *)
(* that rule's message (underscore-prefix, lower-case, comma respectively), *)
(* and the failure happens at construction, before any bind.                *)
C19_AsClaimed == DomainConstruction => IndexNameRulesDecide

(* C19 amended: the same, for a retryInterval that is absent or at most     *)
(* 7200 seconds; a longer retryInterval fails the construction first, with  *)
(* 'retry interval too big', whatever the index name.                       *)
C19_IndexNameRules ==
    DomainConstruction =>
        IF IsSome(last.input.ext.retryInterval) /\ toSeconds(Val(last.input.ext.retryInterval)) > 7200
          THEN last.result = Thrown(ErrRetryInterval)
          ELSE IndexNameRulesDecide

C19_Witness ==
    /\ DomainConstruction
    /\ last.input.ext.retryInterval = Some(Duration(7200, "seconds"))
    /\ IndexNameGiven = <<"a", "M", "a">>
    /\ last.result = Thrown("Elasticsearch index name must be lower-case. indexName provided: aMa")
    /\ binders = <<>>

(* the grants the constructor itself issues, outside bind (lines 343, 349) *)
ConstructorGrants ==
    { g \in last.granted :
        \/ g.access = "encryptDecrypt"
        \/ (IsSome(last.input.sourceStream) /\ g = Grant(RoleOf(last.input), Val(last.input.sourceStream), "read")) }

BindGrants == last.granted \ ConstructorGrants

(* C20: every permission grant established while binding a destination     *)
(* (log-group write grant, processor invoke grant, bucket and domain        *)
(* grants) is recorded as a dependency of the emitted delivery-stream       *)
(* resource, so that the delivery stream is never ready before a grant it   *)
(* relies on.  A grant is a statement of its grantee's policy; the resource *)
(* waits for it when it depends on the grantee.                             *)
C20_GrantsAreDependencies ==
    (last.op = "DeliveryStream" /\ last.result.outcome = "value") =>
        \A g \in BindGrants : g.grantee \in last.result.value.dependsOn

RedshiftConstruction == last.op = "newDestination" /\ last.input.kind = "redshift"

C25_RetryTimeoutBelowTwoHours ==
    (RedshiftConstruction /\ IsSome(last.input.ext.retryTimeout)
       /\ toSeconds(Val(last.input.ext.retryTimeout)) >= 2 * 3600) =>
        last.result = Thrown(ErrRetryTimeout)

(* the message createBufferingHints fails with on interval d alone, or on   *)
(* size z alone ("" when it does not fail)                                  *)
IntervalMessage(d) == createBufferingHints(Some(d), None).error

SizeMessage(z) == createBufferingHints(None, Some(z)).error

(* C24: when a buffering interval or buffering size is rejected as out of   *)
(* range, the failure identifies the field and carries both the provided    *)
(* value and the allowed bounds (an interval of 59 seconds fails with a     *)
(* message citing 59 and the range [60, 900]).  A message that carries the  *)
(* provided value tells two different rejected values apart, and a message  *)
(* that identifies the field tells an interval from a size.                 *)
C24_MessageCarriesValue ==
    (last.op = "createBufferingHints" /\ last.result.outcome = "error") =>
        /\ last.result.error = ErrBufferingInterval =>
              \A d \in Durations :
                  (IntervalMessage(d) # "" /\ toSeconds(d) # toSeconds(Val(last.interval)))
                     => IntervalMessage(d) # last.result.error
        /\ last.result.error = ErrBufferingSize =>
              \A z \in Sizes :
                  (SizeMessage(z) # "" /\ toMebibytes(z) # toMebibytes(Val(last.size)))
                     => SizeMessage(z) # last.result.error
        /\ last.result.error \in {ErrBufferingInterval, ErrBufferingSize}
        /\ ErrBufferingInterval # ErrBufferingSize

LogCallsOn(b) == { i \in DOMAIN logCalls : logCalls[i].binder = b }

(* C26: calling createLoggingOptions twice with the same streamId on the    *)
(* same binder instance succeeds both times and returns the same log group  *)
(* and the same log stream: the stream named by a streamId is created on    *)
(* first use and reused afterwards, never created twice and never a cause   *)
(* of failure.                                                              *)
C26_SameStreamIdReused ==
    \A b \in DOMAIN binders :
        \A i, j \in LogCallsOn(b) :
            (i < j /\ logCalls[i].streamId = logCalls[j].streamId
               /\ logCalls[i].result.outcome = "value") =>
                /\ logCalls[j].result.outcome = "value"
                /\ logCalls[j].result.value.logGroupName = logCalls[i].result.value.logGroupName
                /\ logCalls[j].result.value.logStreamName = logCalls[i].result.value.logStreamName

HelperNames ==
    {"createLoggingOptions", "createBackupConfig", "createProcessingConfig", "createBufferingHints"}

(* C28: whenever one of the DestinationBase helpers (createLoggingOptions,  *)
(* createBackupConfig, createProcessingConfig, createBufferingHints) fails  *)
(* with a configuration error, that call has created no resource (log      *)
(* group, log stream, bucket), has issued no grant and bound no processor,  *)
(* and has left the binder's memoized log group unchanged.                  *)
ConfigurationErrors ==
    { ErrLoggingContradiction, ErrBackupContradiction, ErrManyProcessors,
      ErrBufferingInterval, ErrBufferingSize }

C28_FailureChangesNothing ==
    (last.op \in HelperNames /\ last.result.outcome = "error"
       /\ last.result.error \in ConfigurationErrors) =>
        /\ last.created = {}
        /\ last.granted = {}
        /\ constructs = ConstructsBefore
        /\ binders[last.binder].logGroup = last.memoBefore

C28_Witness ==
    /\ last.op = "createBackupConfig"
    /\ last.result = Thrown(ErrBackupContradiction)
    /\ IsSome(last.memoBefore)
    /\ binders[last.binder].logGroup = last.memoBefore
    /\ last.created = {}
    /\ last.granted = {}

(* what the constructor computes from its own props (lines 339-349) *)
OwnedProperties(props) ==
    [ deliveryStreamType |-> Some(IF IsSome(props.sourceStream) THEN "KinesisStreamAsSource" ELSE "DirectPut"),
      deliveryStreamName |-> props.deliveryStreamName,
      kinesisStreamSourceConfiguration |->
          IF IsSome(props.sourceStream)
            THEN Some([kinesisStreamArn |-> Val(props.sourceStream), roleArn |-> RoleOf(props)])
            ELSE None ]

(* C29: the assembler-owned top-level properties of the emitted             *)
(* delivery-stream resource (DeliveryStreamType,                            *)
(* DeliveryStreamEncryptionConfigurationInput,                              *)
(* KinesisStreamSourceConfiguration, DeliveryStreamName) always equal the   *)
(* values the DeliveryStream computed from its own props (type              *)
(* 'KinesisStreamAsSource' with a source configuration exactly when a       *)
(* sourceStream is supplied, 'DirectPut' with none otherwise), whatever     *)
(* property bag the destination's bind returns.                             *)
C29_OwnedPropertiesKept ==
    (last.op = "DeliveryStream" /\ last.result.outcome = "value") =>
        /\ \A k \in DOMAIN OwnedProperties(last.input) :
              last.result.value.properties[k] = OwnedProperties(last.input)[k]
        /\ C18_EncryptionInput

ImportCall == last.op = "fromDeliveryStreamAttributes"

(* an attribute counts as supplied when it is a non-empty text, as in the *)
(* first check of the function                                            *)
NameSupplied(attrs) == IsSome(attrs.deliveryStreamName) /\ Val(attrs.deliveryStreamName) # ""

ArnSupplied(attrs) == IsSome(attrs.deliveryStreamArn) /\ Val(attrs.deliveryStreamArn).raw # ""

(* the resource name that can be extracted from a supplied ARN, if any *)
ExtractableName(attrs) ==
    IF IsSome(attrs.deliveryStreamArn)
         /\ IsSome(Val(attrs.deliveryStreamArn).resourceName)
         /\ Val(Val(attrs.deliveryStreamArn).resourceName) # ""
      THEN Val(attrs.deliveryStreamArn).resourceName
      ELSE None

CreatedLogGroups(name) ==
    { c \in constructs : c.path = name /\ c.type = "AWS::Logs::LogGroup" /\ c.by # 0 }

(* C27: no log group is shared across delivery streams: the logging         *)
(* configuration made for one delivery stream (the scope of the bind) never *)
(* names a log group that a destination created under another scope, also   *)
(* when the same destination instance is bound again.                       *)
C27_LogGroupNotShared ==
    (/\ last.op = "createLoggingOptions"
     /\ last.result.outcome = "value")
    => \A c \in CreatedLogGroups(last.result.value.logGroupName) :
          c.path = last.scope \o <<"Log Group">>

(* the destinations as their constructors left them, none bound yet *)
NeverBound == [ b \in DOMAIN binders |-> [binders[b] EXCEPT !.logGroup = None] ]

(* the same construction in a Stack where no destination was bound before *)
BoundAlone == DeliveryStream(last.streamId, last.input, NeverBound, World(None, UserResources, {}))

(* C21: what binding a destination yields depends only on the destination's *)
(* props and the bind context: a destination instance bound for the first   *)
(* time yields the configuration an instance of the same configuration      *)
(* yields when no other instance was bound before; two instances of         *)
(* identical configuration yield equal configuration trees.                 *)
C21_BindDependsOnPropsOnly ==
    (/\ last.op = "DeliveryStream"
     /\ last.binder # 0
     /\ last.memoBefore = None)
    => last.result = BoundAlone.r

(* the check of lines 335-337 *)
EncryptionRefused(props) ==
    /\ props.encryption \in {Some(StreamEncryptionAWS_OWNED), Some(StreamEncryptionUNENCRYPTED)}
    /\ IsSome(props.encryptionKey)

(* what the last construction made itself before it reached the bind: the  *)
(* delivery stream, its role, its key                                      *)
OwnConstructs ==
    { c \in last.created : c.by = 0 /\ c.type # "AWS::KinesisFirehose::DeliveryStream" }

ResourcesEmitted == CreatedOfType("AWS::KinesisFirehose::DeliveryStream")

(* the Stack as the last construction had it when the role was resolved,   *)
(* the encryption validated and the constructor's own grants made          *)
PreparedWorld ==
    World(last.memoBefore, ConstructsBefore \cup OwnConstructs, (grants \ last.granted) \cup ConstructorGrants)

(* one bind of the destination there, for the role resolved *)
TheBind == bind(binders[last.binder], last.binder, PreparedWorld, last.scope, RoleOf(last.input))

(* the last construction left what the bind e left, and emitted the        *)
(* resource from what e returned                                           *)
LeftByBind(e) ==
    /\ grants = e.w.grants
    /\ constructs \ ResourcesEmitted = e.w.constructs
    /\ binders[last.binder].logGroup = e.w.memo
    /\ IF Failed(e)
         THEN last.result = e.r /\ ResourcesEmitted = {}
         ELSE /\ last.result.outcome = "value"
              /\ ResourcesEmitted
                   = {Construct(last.scope \o <<"Resource">>, "AWS::KinesisFirehose::DeliveryStream", 0)}
              /\ \A k \in DOMAIN e.r.value \cap DestinationConfigurationNames :
                    last.result.value.properties[k] = e.r.value[k]
              /\ RoleOf(last.input) \in last.result.value.dependsOn

(* C30: while one DeliveryStream is constructed the destination's bind is   *)
(* invoked exactly once, after the role has been resolved and the           *)
(* encryption validation has passed, and before the delivery stream         *)
(* resource is emitted; when the encryption validation fails, bind is not   *)
(* invoked and nothing of the destination is created.                       *)
C30_BindOnceAfterValidation ==
    (last.op = "DeliveryStream" /\ last.binder # 0) =>
        IF EncryptionRefused(last.input)
          THEN /\ last.result = Thrown(ErrEncryptionKey(Val(last.input.encryption)))
               /\ { c \in last.created : c.by # 0 } = {}
               /\ KeysCreated = {} /\ ResourcesEmitted = {}
               /\ last.granted = {}
               /\ binders[last.binder].logGroup = last.memoBefore
          ELSE LeftByBind(TheBind)

(* a Redshift destination, whose bind creates a table, a user, a bucket and *)
(* a log group, given to a delivery stream that is refused for its key      *)
C30_Witness ==
    /\ last.op = "DeliveryStream"
    /\ last.binder # 0
    /\ binders[last.binder].kind = "redshift"
    /\ EncryptionRefused(last.input)
    /\ last.result.outcome = "error"
    /\ last.granted = {}
    /\ ~Failed(bind(binders[last.binder], last.binder, World(last.memoBefore, constructs, grants),
                    last.scope, RoleOf(last.input)))

====
